---- MODULE Spec2Model ----
(***************************************************************************)
(* The OAuth authorization server of mcp_server: the /authorize, /consent  *)
(* and /token endpoints (app/api/endpoints/oauth.py), their helpers        *)
(* (app/utils/oauth.py), the bearer middleware and revoke_token            *)
(* (app/middleware/oauth.py) and the blacklist (app/models/                *)
(* token_blacklist.py).                                                    *)
(*                                                                         *)
(* The store is the only shared state.  Every request is a task; a request *)
(* that issues several statements/commits is split at each of them, so     *)
(* that concurrent requests interleave as they do on a READ COMMITTED      *)
(* database with one session per request.                                  *)
(*                                                                         *)
(* Strings are strings; Python's None is the string "None"; random strings *)
(* (secrets.token_urlsafe) are fresh names drawn with a counter.  Time is  *)
(* in minutes.                                                             *)
(***************************************************************************)
EXTENDS Integers, FiniteSets, Sequences, TLC

(***************************************************************************)
(* Bounds of the model.                                                    *)
(***************************************************************************)
MaxCodes == 1        \* authorization codes minted by /consent
MaxTicks == 1        \* times the clock advances
MaxRequests == 2     \* request slots: requests in flight or answered
MaxRegistrations == 1 \* clients registered by the administrator

(***************************************************************************)
(* Program constants.                                                      *)
(***************************************************************************)
AUTH_CODE_EXPIRE_MINUTES == 10
ACCESS_TOKEN_EXPIRE_MINUTES == 60
REFRESH_TOKEN_EXPIRE_DAYS == 30
MinutesPerDay == 1440
HTTP_200_OK == 200
HTTP_302_FOUND == 302
HTTP_400_BAD_REQUEST == 400
HTTP_401_UNAUTHORIZED == 401
HTTP_403_FORBIDDEN == 403
HTTP_500_INTERNAL_SERVER_ERROR == 500

VARIABLES
    clients,     \* table oauth_clients
    codes,       \* table authorization_codes
    tokens,      \* table tokens
    blacklist,   \* table token_blacklist
    now,         \* datetime.utcnow(), in minutes
    ticks,       \* how often the clock has advanced
    nonce,       \* random strings drawn so far
    minted,      \* authorization codes created so far
    req,         \* the tasks: one record per request slot
    answered,    \* the last request that was answered in its first step
    resp         \* the response of the last /authorize or /consent request

vars == <<clients, codes, tokens, blacklist, now, ticks, nonce, minted, req, answered, resp>>

None == "None"

\* Python truthiness of an Optional[str]: `not x` holds for None and "".
Falsy(x) == x = None \/ x = ""

\* secrets.token_urlsafe(32): the n-th random string drawn.  256 random bits
\* do not repeat, so every draw is a new name.
RandomNames ==
    <<"r01", "r02", "r03", "r04", "r05", "r06", "r07", "r08", "r09", "r10",
      "r11", "r12", "r13", "r14", "r15", "r16", "r17", "r18", "r19", "r20">>
token_urlsafe(n) == RandomNames[n]

\* base64.urlsafe_b64encode(hashlib.sha256(v.encode()).digest()).decode().rstrip("=")
\* on the verifiers of the model: a one-way map into challenge strings.
Verifiers == {"v1", "v2"}
S256(v) == IF v = "v1" THEN "ch1" ELSE IF v = "v2" THEN "ch2" ELSE "ch0"

(***************************************************************************)
(* Rows.                                                                   *)
(***************************************************************************)
ClientA ==
    [id |-> "pkA", client_id |-> "cA", client_secret |-> "sA",
     redirect_uris |-> {"u1", "u2"}, scopes |-> {"read", "write"},
     is_confidential |-> TRUE]

\* A second confidential client, with the same redirect URI registered.
ClientB ==
    [id |-> "pkB", client_id |-> "cB", client_secret |-> "sB",
     redirect_uris |-> {"u1"}, scopes |-> {"read", "write"},
     is_confidential |-> TRUE]

NoClient ==
    [id |-> None, client_id |-> None, client_secret |-> None,
     redirect_uris |-> {}, scopes |-> {}, is_confidential |-> FALSE]

NoCode ==
    [code |-> None, client_id |-> None, user_id |-> None, redirect_uri |-> None,
     scope |-> <<>>, expires_at |-> 0, code_challenge |-> None,
     code_challenge_method |-> None]

NoToken ==
    [id |-> 0, access_token |-> None, refresh_token |-> None, client_id |-> None,
     user_id |-> None, scope |-> <<>>, access_token_expires_at |-> 0,
     refresh_token_expires_at |-> 0, is_revoked |-> FALSE]

\* Query.first(): some row of the result, or no row.
First(rows, none) == IF rows = {} THEN none ELSE CHOOSE r \in rows : TRUE

(***************************************************************************)
(* app/utils/oauth.py                                                      *)
(***************************************************************************)
validate_client(client_id) ==
    First({c \in clients : c.client_id = client_id}, NoClient)

validate_redirect_uri(client, redirect_uri) ==
    redirect_uri \in client.redirect_uris

validate_client_credentials(client, client_secret) ==
    client.client_secret = client_secret

\* The row create_authorization_code adds and commits.
create_authorization_code(client, user_id, redirect_uri, scope, code_challenge, code_challenge_method) ==
    [code |-> token_urlsafe(nonce + 1),
     client_id |-> client.id,
     user_id |-> user_id,
     redirect_uri |-> redirect_uri,
     scope |-> scope,
     expires_at |-> now + AUTH_CODE_EXPIRE_MINUTES,
     code_challenge |-> code_challenge,
     code_challenge_method |-> code_challenge_method]

\* Mutant: a code never expires.
is_expired_never(auth_code) == FALSE

\* AuthorizationCode.is_expired
is_expired(auth_code) == now > auth_code.expires_at

(***************************************************************************)
(* Responses of the one-step endpoints.                                    *)
(***************************************************************************)
\* HTTP Basic credentials; without an Authorization header there are none.
NoCredentials == [username |-> None, password |-> None]

\* The body of a register or update request: the lists it gives, and which
\* of the optional fields it gives at all.
NoData == [redirect_uris |-> {}, scopes |-> {}, given |-> {}]

\* What get_current_user reads from a request: the bearer token of the
\* Authorization header, the session_token cookie and the user_id query
\* parameter.
NoPresented == [token |-> None, session_token |-> None, user_id |-> None]

\* The parameters of the request, besides client_id and redirect_uri.
NoParameters ==
    [response_type |-> None, scope |-> <<>>, state |-> None, decision |-> None,
     code_challenge |-> None, code_challenge_method |-> None,
     current_user |-> None, credentials |-> NoCredentials, client_data |-> NoData,
     presented |-> NoPresented]

Response(op, client_id, redirect_uri, status, location, error, code) ==
    [op |-> op, client_id |-> client_id, redirect_uri |-> redirect_uri,
     status |-> status, location |-> location, error |-> error, code |-> code,
     state |-> None, request |-> NoParameters]

\* &state={state} of a redirect
WithState(response, state) ==
    IF response.location # None THEN [response EXCEPT !.state = state]
    ELSE response

NoResponse == Response("none", None, None, 0, None, None, None)

\* RedirectResponse(f"{redirect_uri}?error=...&state=...", 302)
RedirectError(op, client_id, redirect_uri, error) ==
    Response(op, client_id, redirect_uri, HTTP_302_FOUND, redirect_uri, error, None)

\* The `except OAuthError` clause of authorize and of consent.
OAuthErrorResponse(op, client_id, redirect_uri, state, error) ==
    IF ~Falsy(redirect_uri) /\ ~Falsy(state)
    THEN RedirectError(op, client_id, redirect_uri, error)
    ELSE Response(op, client_id, redirect_uri, HTTP_400_BAD_REQUEST, None, error, None)

(***************************************************************************)
(* GET /authorize                                                          *)
(***************************************************************************)
\* Mutant: only the first requested scope is looked at.
InvalidScope_firstOnly(client, scope) ==
    Len(scope) > 0 /\ scope[1] \notin client.scopes

\* for req_scope in scope.split(): if req_scope not in client.scopes
InvalidScope(client, scope) ==
    \E i \in 1..Len(scope) : scope[i] \notin client.scopes

AuthorizeResponse(response_type, client_id, redirect_uri, scope, state, code_challenge, code_challenge_method, current_user) ==
    LET client == validate_client(client_id)
        op == "authorize"
    IN  IF response_type # "code"
        THEN RedirectError(op, client_id, redirect_uri, "unsupported_response_type")
        ELSE IF client = NoClient
        THEN RedirectError(op, client_id, redirect_uri, "invalid_client")
        ELSE IF ~validate_redirect_uri(client, redirect_uri)
        THEN OAuthErrorResponse(op, client_id, redirect_uri, state, "invalid_request")
        ELSE IF InvalidScope(client, scope)
        THEN RedirectError(op, client_id, redirect_uri, "invalid_scope")
        ELSE IF ~Falsy(code_challenge_method) /\ code_challenge_method # "S256"
        THEN RedirectError(op, client_id, redirect_uri, "invalid_request")
        ELSE IF Falsy(code_challenge)
        THEN RedirectError(op, client_id, redirect_uri, "invalid_request")
        ELSE IF current_user = None
        THEN RedirectError(op, client_id, redirect_uri, "login_required")
        ELSE Response(op, client_id, redirect_uri, HTTP_200_OK, None, None, None)

Authorize(response_type, client_id, redirect_uri, scope, state, code_challenge, code_challenge_method, current_user) ==
    /\ resp' = [WithState(AuthorizeResponse(response_type, client_id,
                     redirect_uri, scope, state, code_challenge,
                     code_challenge_method, current_user), state)
                   EXCEPT !.request =
                     [NoParameters EXCEPT !.response_type = response_type,
                        !.scope = scope, !.state = state,
                        !.code_challenge = code_challenge,
                        !.code_challenge_method = code_challenge_method,
                        !.current_user = current_user]]
    /\ UNCHANGED <<clients, codes, tokens, blacklist, now, ticks, nonce, minted, req, answered>>

(***************************************************************************)
(* POST /consent                                                           *)
(***************************************************************************)
\* What consent does once require_authenticated_user has let it in:
\* "error", "deny" or "issue".
\* str.lower, on the decisions of the model.
Lower(decision) ==
    IF decision \in {"approve", "Approve", "APPROVE"} THEN "approve"
    ELSE IF decision \in {"deny", "DENY"} THEN "deny"
    ELSE decision

\* Mutant: the decision is not looked at.
ConsentOutcome_anyDecision(client, redirect_uri, decision) ==
    IF client = NoClient THEN "invalid_client"
    ELSE IF ~validate_redirect_uri(client, redirect_uri) THEN "invalid_request"
    ELSE "issue"

ConsentOutcome(client, redirect_uri, decision) ==
    IF client = NoClient THEN "invalid_client"
    ELSE IF ~validate_redirect_uri(client, redirect_uri) THEN "invalid_request"
    ELSE IF Lower(decision) # "approve" THEN "access_denied"
    ELSE "issue"

\* consent, entered with the user that require_authenticated_user got from
\* get_current_user (None when it got none).
ConsentHandler(client_id, redirect_uri, scope, state, decision, code_challenge, code_challenge_method, current_user, presented) ==
    LET client == validate_client(client_id)
        op == "consent"
        outcome == ConsentOutcome(client, redirect_uri, decision)
        row == create_authorization_code(client, current_user, redirect_uri,
                   scope, code_challenge, code_challenge_method)
        q == [NoParameters EXCEPT !.scope = scope, !.state = state,
                 !.decision = decision, !.code_challenge = code_challenge,
                 !.code_challenge_method = code_challenge_method,
                 !.current_user = current_user, !.presented = presented]
        Answer(response) == [WithState(response, state) EXCEPT !.request = q]
    IN  IF current_user = None
        THEN \* require_authenticated_user raises 401
             /\ resp' = Answer(Response(op, client_id, redirect_uri,
                                 HTTP_401_UNAUTHORIZED, None, "Not authenticated", None))
             /\ UNCHANGED <<clients, codes, tokens, blacklist, now, ticks, nonce, minted, req, answered>>
        ELSE IF outcome = "invalid_client" \/ outcome = "access_denied"
        THEN /\ resp' = Answer(RedirectError(op, client_id, redirect_uri, outcome))
             /\ UNCHANGED <<clients, codes, tokens, blacklist, now, ticks, nonce, minted, req, answered>>
        ELSE IF outcome = "invalid_request"
        THEN /\ resp' = Answer(OAuthErrorResponse(op, client_id, redirect_uri, state, outcome))
             /\ UNCHANGED <<clients, codes, tokens, blacklist, now, ticks, nonce, minted, req, answered>>
        ELSE /\ minted < MaxCodes
             /\ nonce < Len(RandomNames)
             /\ codes' = codes \cup {row}
             /\ nonce' = nonce + 1
             /\ minted' = minted + 1
             /\ resp' = Answer(Response(op, client_id, redirect_uri, HTTP_302_FOUND,
                                        redirect_uri, None, row.code))
             /\ UNCHANGED <<clients, tokens, blacklist, now, ticks, req, answered>>

\* A /consent submission of a user that is signed in as current_user.
Consent(client_id, redirect_uri, scope, state, decision, code_challenge, code_challenge_method, current_user) ==
    ConsentHandler(client_id, redirect_uri, scope, state, decision,
                   code_challenge, code_challenge_method, current_user, NoPresented)

(***************************************************************************)
(* app/utils/admin.py and app/api/endpoints/admin.py                       *)
(***************************************************************************)
HTTP_204_NO_CONTENT == 204
HTTP_404_NOT_FOUND == 404
HTTP_422_UNPROCESSABLE_ENTITY == 422

\* hashlib.sha256(password.encode()).hexdigest() and the bcrypt hash of
\* pwd_context.hash(password): two one-way maps with disjoint values.
sha256_hexdigest(password) == <<"sha256", password>>
get_password_hash(password) == <<"bcrypt", password>>

\* The users table: the administrator that get_admin_user creates, a user
\* stored the same way without is_superuser (the normal user of the fixtures
\* of tests/test_oauth.py), and a user whose row holds the hash of
\* get_password_hash of app/utils/security.py (the test user of the fixtures
\* of tests/test_oauth_pkce.py; create_user writes the same hash).
AdminUser ==
    [id |-> "admin", username |-> "admin",
     hashed_password |-> sha256_hexdigest("adminpassword"),
     is_active |-> TRUE, is_superuser |-> TRUE]
RegularUser ==
    [id |-> "regular", username |-> "regular",
     hashed_password |-> sha256_hexdigest("userpassword"),
     is_active |-> TRUE, is_superuser |-> FALSE]
MemberUser ==
    [id |-> "member", username |-> "member",
     hashed_password |-> get_password_hash("memberpassword"),
     is_active |-> TRUE, is_superuser |-> FALSE]
\* The users of the OAuth flows: alice, and bob whose is_active has been
\* cleared in the database (the application never writes the column).
AliceUser ==
    [id |-> "alice", username |-> "alice",
     hashed_password |-> get_password_hash("alicepassword"),
     is_active |-> TRUE, is_superuser |-> FALSE]
InactiveUser ==
    [id |-> "bob", username |-> "bob",
     hashed_password |-> get_password_hash("bobpassword"),
     is_active |-> FALSE, is_superuser |-> FALSE]
NoUser ==
    [id |-> None, username |-> None, hashed_password |-> <<>>,
     is_active |-> FALSE, is_superuser |-> FALSE]
users == {AdminUser, RegularUser, MemberUser, AliceUser, InactiveUser}

\* verify_admin_credentials behind HTTPBasic(): the status it raises, or 200
\* when it returns the user.
verify_admin_credentials(credentials) ==
    LET user == First({u \in users : u.username = credentials.username}, NoUser)
    IN  IF credentials = NoCredentials THEN HTTP_401_UNAUTHORIZED
        ELSE IF user = NoUser THEN HTTP_401_UNAUTHORIZED
        ELSE IF user.hashed_password # sha256_hexdigest(credentials.password)
        THEN HTTP_401_UNAUTHORIZED
        ELSE IF ~user.is_superuser THEN HTTP_403_FORBIDDEN
        ELSE HTTP_200_OK

valid_scopes == {"memories:read", "memories:write", "profile:read", "profile:write"}

\* validate_scopes of app/schemas/oauth.py: TRUE when it raises no ValueError.
validate_scopes(scopes) == \A scope \in scopes : scope \in valid_scopes

\* The answer of an administrator endpoint.
AdminResponse(op, client_id, credentials, client_data, status) ==
    [Response(op, client_id, None, status, None, None, None)
       EXCEPT !.request = [NoParameters EXCEPT !.credentials = credentials,
                                               !.client_data = client_data]]

\* The dependency and the body validation that run before a handler:
\* the status that ends the request, or 200 when the handler runs.
BeforeHandler(credentials, client_data) ==
    IF verify_admin_credentials(credentials) # HTTP_200_OK
    THEN verify_admin_credentials(credentials)
    ELSE IF "scopes" \in client_data.given /\ ~validate_scopes(client_data.scopes)
    THEN HTTP_422_UNPROCESSABLE_ENTITY
    ELSE HTTP_200_OK

\* POST /clients/register; redirect_uris and scopes are required fields.
register_client(credentials, client_data) ==
    LET status == BeforeHandler(credentials, client_data)
        new_client == [id |-> token_urlsafe(nonce + 1),
                       client_id |-> token_urlsafe(nonce + 2),
                       client_secret |-> token_urlsafe(nonce + 3),
                       redirect_uris |-> client_data.redirect_uris,
                       scopes |-> client_data.scopes,
                       is_confidential |-> TRUE]
    IN  /\ client_data.given = {"redirect_uris", "scopes"}
        /\ IF status # HTTP_200_OK
           THEN /\ resp' = AdminResponse("register", None, credentials, client_data, status)
                /\ UNCHANGED <<clients, nonce>>
           ELSE /\ nonce < 3 * MaxRegistrations
                /\ nonce + 3 <= Len(RandomNames)
                /\ clients' = clients \cup {new_client}
                /\ nonce' = nonce + 3
                /\ resp' = AdminResponse("register", new_client.client_id,
                                         credentials, client_data, HTTP_200_OK)
        /\ UNCHANGED <<codes, tokens, blacklist, now, ticks, minted, req, answered>>

\* GET /clients and GET /clients/{client_id}
read_oauth_clients(op, credentials, client_id) ==
    LET status == BeforeHandler(credentials, NoData)
        client == validate_client(client_id)
    IN  /\ resp' = AdminResponse(op, client_id, credentials, NoData,
                      IF status # HTTP_200_OK THEN status
                      ELSE IF op = "get" /\ client = NoClient THEN HTTP_404_NOT_FOUND
                      ELSE HTTP_200_OK)
        /\ UNCHANGED <<clients, codes, tokens, blacklist, now, ticks, nonce, minted, req, answered>>

\* PUT /clients/{client_id}: the fields that are not None are written.
update_oauth_client(credentials, client_id, client_data) ==
    LET status == BeforeHandler(credentials, client_data)
        client == validate_client(client_id)
        updated == [client EXCEPT
                      !.redirect_uris = IF "redirect_uris" \in client_data.given
                                        THEN client_data.redirect_uris ELSE @,
                      !.scopes = IF "scopes" \in client_data.given
                                 THEN client_data.scopes ELSE @]
    IN  /\ IF status # HTTP_200_OK
           THEN /\ resp' = AdminResponse("update", client_id, credentials, client_data, status)
                /\ UNCHANGED clients
           ELSE IF client = NoClient
           THEN /\ resp' = AdminResponse("update", client_id, credentials,
                                         client_data, HTTP_404_NOT_FOUND)
                /\ UNCHANGED clients
           ELSE /\ clients' = (clients \ {client}) \cup {updated}
                /\ resp' = AdminResponse("update", client_id, credentials,
                                         client_data, HTTP_200_OK)
        /\ UNCHANGED <<codes, tokens, blacklist, now, ticks, nonce, minted, req, answered>>

\* DELETE /clients/{client_id}; the codes and tokens of the client go with it
\* (cascade="all, delete-orphan").
\* Mutant: the rows of the client are left behind.
Cascade_keeps(rows, client) == rows

\* cascade="all, delete-orphan" of OAuthClient.authorization_codes and
\* OAuthClient.tokens: db.delete(client) deletes the rows of the client.
Cascade(rows, client) == {row \in rows : row.client_id # client.id}

delete_oauth_client(credentials, client_id) ==
    LET status == BeforeHandler(credentials, NoData)
        client == validate_client(client_id)
    IN  /\ IF status # HTTP_200_OK
           THEN /\ resp' = AdminResponse("delete", client_id, credentials, NoData, status)
                /\ UNCHANGED <<clients, codes, tokens>>
           ELSE IF client = NoClient
           THEN /\ resp' = AdminResponse("delete", client_id, credentials, NoData,
                                         HTTP_404_NOT_FOUND)
                /\ UNCHANGED <<clients, codes, tokens>>
           ELSE /\ clients' = clients \ {client}
                /\ codes' = Cascade(codes, client)
                /\ tokens' = Cascade(tokens, client)
                /\ resp' = AdminResponse("delete", client_id, credentials, NoData,
                                         HTTP_204_NO_CONTENT)
        /\ UNCHANGED <<blacklist, now, ticks, nonce, minted, req, answered>>

(***************************************************************************)
(* The clock.                                                              *)
(***************************************************************************)
\* d minutes pass.  The steps tried for a lifetime of ttl minutes: up to its
\* last valid minute, and one minute past it.
UpTo(ttl) == {ttl, ttl + 1}

Tick(d) ==
    /\ ticks < MaxTicks
    /\ now' = now + d
    /\ ticks' = ticks + 1
    /\ UNCHANGED <<clients, codes, tokens, blacklist, nonce, minted, req, answered, resp>>

(***************************************************************************)
(* Request tasks.  A slot holds the request's parameters, the rows its     *)
(* session has loaded, and in the end its response.  A request that is     *)
(* answered in its first step takes no slot: it is kept in `answered`      *)
(* until the next such request.  `late` records that, when the request's   *)
(* outcome was decided against the store, an earlier request had already   *)
(* succeeded with the same credential.                                     *)
(***************************************************************************)
Procs == 1..MaxRequests

Idle ==
    [kind |-> "idle", pc |-> "idle", client_id |-> None, client_secret |-> None,
     path |-> <<>>,
     code |-> None, redirect_uri |-> None, code_verifier |-> None,
     presented |-> None, requested |-> None, override |-> FALSE,
     auth_code |-> NoCode, token_obj |-> NoToken,
     access_token |-> None, refresh_token |-> None, scope |-> <<>>,
     user_id |-> None, status |-> 0, error |-> None, error_description |-> None,
     token_type |-> None, expires_in |-> 0,
     forwarded |-> FALSE, required |-> {}, late |-> FALSE,
     active |-> None, exp |-> 0]

\* Slots are taken in order.
FreeSlot(p) ==
    /\ req[p].kind = "idle"
    /\ \A q \in Procs : q < p => req[q].kind # "idle"

\* The first step of a request in slot p ends with the request as r.
FirstStep(p, r) ==
    IF r.pc = "done"
    THEN answered' = r /\ UNCHANGED req
    ELSE req' = [req EXCEPT ![p] = r] /\ UNCHANGED answered

\* The requests answered so far, as far as the model remembers them.
Answered == {req[p] : p \in {q \in Procs : req[q].pc = "done"}} \cup {answered}

\* JSONResponse(status_code=400, content={"error": ..., "error_description": ...})
Failed(r, status, error, description) ==
    [r EXCEPT !.pc = "done", !.status = status, !.error = error,
              !.error_description = description]

(***************************************************************************)
(* validate_authorization_code: "ok", or the description of the OAuthError *)
(* it raises (each with error invalid_grant).                              *)
(***************************************************************************)
\* Mutant: the code is looked up without the client.
FindCode_anyClient(code, client_pk) ==
    First({c \in codes : c.code = code}, NoCode)

FindCode(code, client_pk) ==
    First({c \in codes : c.code = code /\ c.client_id = client_pk}, NoCode)

PkceFailure(auth_code, code_verifier) ==
    IF ~Falsy(auth_code.code_challenge) /\ ~Falsy(auth_code.code_challenge_method)
    THEN IF Falsy(code_verifier)
         THEN "Code verifier required"
         ELSE IF auth_code.code_challenge_method = "S256"
                 /\ S256(code_verifier) # auth_code.code_challenge
         THEN "Code verifier does not match challenge"
         ELSE "ok"
    ELSE "ok"

\* Mutant: the redirect URI of the request is not compared with the stored one.
validate_authorization_code_noRedirect(code, client_pk, redirect_uri, code_verifier) ==
    LET auth_code == FindCode(code, client_pk)
    IN  IF auth_code = NoCode THEN "Invalid authorization code"
        ELSE IF is_expired(auth_code) THEN "Authorization code has expired"
        ELSE PkceFailure(auth_code, code_verifier)

validate_authorization_code(code, client_pk, redirect_uri, code_verifier) ==
    LET auth_code == FindCode(code, client_pk)
    IN  IF auth_code = NoCode THEN "Invalid authorization code"
        ELSE IF is_expired(auth_code) THEN "Authorization code has expired"
        ELSE IF auth_code.redirect_uri # redirect_uri THEN "Redirect URI mismatch"
        ELSE PkceFailure(auth_code, code_verifier)

(***************************************************************************)
(* POST /token: client authentication, common to every grant.              *)
(***************************************************************************)
\* Mutant: a confidential client's secret is not compared.
ClientFailure_noCompare(client, client_secret) ==
    IF client = NoClient THEN "Invalid client"
    ELSE IF client.is_confidential /\ Falsy(client_secret)
    THEN "Client authentication required"
    ELSE "ok"

ClientFailure(client, client_secret) ==
    IF client = NoClient THEN "Invalid client"
    ELSE IF client.is_confidential /\ Falsy(client_secret)
    THEN "Client authentication required"
    ELSE IF client.is_confidential
            /\ ~validate_client_credentials(client, client_secret)
    THEN "Invalid client credentials"
    ELSE "ok"

\* Some request that presented this code has already been answered 200.
CodeExchanged(code) ==
    \E q \in Procs : /\ req[q].kind = "authorization_code"
                     /\ req[q].code = code
                     /\ req[q].pc = "done"
                     /\ req[q].status = HTTP_200_OK

(***************************************************************************)
(* POST /token, grant_type=authorization_code, up to and including         *)
(* validate_authorization_code (one query; a delete and commit when the    *)
(* code has expired).                                                      *)
(***************************************************************************)
\* Mutant: the endpoint does not ask for the code verifier.
MissingParameter_noVerifier(code, redirect_uri, code_verifier) ==
    IF Falsy(code) \/ Falsy(redirect_uri) THEN "Missing required parameters"
    ELSE "ok"

\* The required parameters of the grant: "ok", or the description of the
\* invalid_request error.
MissingParameter(code, redirect_uri, code_verifier) ==
    IF Falsy(code) \/ Falsy(redirect_uri) THEN "Missing required parameters"
    ELSE IF Falsy(code_verifier) THEN "Code verifier required"
    ELSE "ok"

\* Mutant: the used code is never deleted.
DeleteCode_keeps(rows, auth_code) == rows

\* db.delete(auth_code); db.commit()
DeleteCode(rows, auth_code) == rows \ {auth_code}

ExchangeBegin(p, code, redirect_uri, client_id, client_secret, code_verifier) ==
    LET client == validate_client(client_id)
        clientFailure == ClientFailure(client, client_secret)
        missing == MissingParameter(code, redirect_uri, code_verifier)
        r == [Idle EXCEPT !.kind = "authorization_code", !.code = code,
                          !.client_id = client_id,
                          !.client_secret = client_secret,
                          !.redirect_uri = redirect_uri,
                          !.code_verifier = code_verifier,
                          !.late = CodeExchanged(code)]
        verdict == validate_authorization_code(code, client.id, redirect_uri,
                                               code_verifier)
        auth_code == FindCode(code, client.id)
        loaded == [r EXCEPT !.auth_code = auth_code]
    IN  /\ FreeSlot(p)
        /\ IF clientFailure # "ok"
           THEN /\ FirstStep(p, Failed(r, HTTP_400_BAD_REQUEST, "invalid_client",
                                       clientFailure))
                /\ UNCHANGED codes
           ELSE IF missing # "ok"
           THEN /\ FirstStep(p, Failed(r, HTTP_400_BAD_REQUEST, "invalid_request",
                                       missing))
                /\ UNCHANGED codes
           ELSE IF verdict # "ok"
           THEN /\ FirstStep(p, Failed(loaded, HTTP_400_BAD_REQUEST,
                                       "invalid_grant", verdict))
                /\ codes' = IF verdict = "Authorization code has expired"
                            THEN DeleteCode(codes, auth_code)
                            ELSE codes
           ELSE /\ FirstStep(p, [loaded EXCEPT !.pc = "validated"])
                /\ UNCHANGED codes
        /\ UNCHANGED <<clients, tokens, blacklist, now, ticks, nonce, minted, resp>>

\* token() with a grant_type that is neither of the two it knows.
OtherGrant(p, client_id, client_secret) ==
    LET clientFailure == ClientFailure(validate_client(client_id), client_secret)
        r == [Idle EXCEPT !.kind = "other_grant", !.client_id = client_id,
                          !.client_secret = client_secret]
    IN  /\ FreeSlot(p)
        /\ FirstStep(p,
              IF clientFailure # "ok"
              THEN Failed(r, HTTP_400_BAD_REQUEST, "invalid_client", clientFailure)
              ELSE Failed(r, HTTP_400_BAD_REQUEST, "unsupported_grant_type",
                          "Unsupported grant type"))
        /\ UNCHANGED <<clients, codes, tokens, blacklist, now, ticks, nonce, minted, resp>>

(***************************************************************************)
(* create_access_token: the Token row it adds and commits.                 *)
(***************************************************************************)
\* Mutant: the Token row is stored without the scope.
create_access_token_noScope(client, user_id, scope) ==
    [id |-> nonce + 1,
     access_token |-> token_urlsafe(nonce + 1),
     refresh_token |-> token_urlsafe(nonce + 2),
     client_id |-> client.id,
     user_id |-> user_id,
     scope |-> <<>>,
     access_token_expires_at |-> now + ACCESS_TOKEN_EXPIRE_MINUTES,
     refresh_token_expires_at |-> now + REFRESH_TOKEN_EXPIRE_DAYS * MinutesPerDay,
     is_revoked |-> FALSE]

create_access_token(client, user_id, scope) ==
    [id |-> nonce + 1,
     access_token |-> token_urlsafe(nonce + 1),
     refresh_token |-> token_urlsafe(nonce + 2),
     client_id |-> client.id,
     user_id |-> user_id,
     scope |-> scope,
     access_token_expires_at |-> now + ACCESS_TOKEN_EXPIRE_MINUTES,
     refresh_token_expires_at |-> now + REFRESH_TOKEN_EXPIRE_DAYS * MinutesPerDay,
     is_revoked |-> FALSE]

SecondsPerMinute == 60

\* The third value create_access_token and refresh_access_token return.
expires_in == ACCESS_TOKEN_EXPIRE_MINUTES * SecondsPerMinute

\* token(): create_access_token for the validated code, committed.
ExchangeCreateToken(p) ==
    LET r == req[p]
        client == validate_client(r.client_id)
        row == create_access_token(client, r.auth_code.user_id, r.auth_code.scope)
    IN  /\ r.kind = "authorization_code"
        /\ r.pc = "validated"
        /\ nonce + 2 <= Len(RandomNames)
        /\ IF client = NoClient
           THEN \* ValueError, caught by `except Exception`
                /\ req' = [req EXCEPT ![p] =
                      Failed(r, HTTP_500_INTERNAL_SERVER_ERROR, "server_error",
                             "An error occurred processing the token request")]
                /\ UNCHANGED <<tokens, nonce>>
           ELSE /\ tokens' = tokens \cup {row}
                /\ nonce' = nonce + 2
                /\ req' = [req EXCEPT ![p] =
                      [r EXCEPT !.pc = "token_created",
                                !.access_token = row.access_token,
                                !.refresh_token = row.refresh_token,
                                !.expires_in = expires_in]]
        /\ UNCHANGED <<clients, codes, blacklist, now, ticks, minted, answered, resp>>

\* token(): db.delete(auth_code); db.commit(); return the token response.
\* A DELETE that matches no row is a warning of the ORM, not an error.
ExchangeDeleteCode(p) ==
    LET r == req[p]
    IN  /\ r.kind = "authorization_code"
        /\ r.pc = "token_created"
        /\ codes' = DeleteCode(codes, r.auth_code)
        /\ req' = [req EXCEPT ![p] =
              [r EXCEPT !.pc = "done", !.status = HTTP_200_OK,
                        !.token_type = "bearer", !.scope = r.auth_code.scope]]
        /\ UNCHANGED <<clients, tokens, blacklist, now, ticks, nonce, minted, answered, resp>>

\* token(): a statement of the request raises in the database (the
\* connection is lost, the statement times out), at the commit of
\* create_access_token or at the commit that deletes the code.  The
\* transaction of that commit is rolled back, what was committed before it
\* stays, and `except Exception` answers 500 server_error.
ExchangeFails(p) ==
    LET r == req[p]
    IN  /\ r.kind = "authorization_code"
        /\ r.pc \in {"validated", "token_created"}
        /\ req' = [req EXCEPT ![p] =
              Failed(r, HTTP_500_INTERNAL_SERVER_ERROR, "server_error",
                     "An error occurred processing the token request")]
        /\ UNCHANGED <<clients, codes, tokens, blacklist, now, ticks, nonce, minted, answered, resp>>

(***************************************************************************)
(* POST /token, grant_type=refresh_token.                                  *)
(***************************************************************************)
FindByRefresh(refresh_token) ==
    First({t \in tokens : t.refresh_token = refresh_token}, NoToken)

\* Some request that presented this refresh token has already been answered 200.
RefreshRotated(refresh_token) ==
    \E q \in Procs : /\ req[q].kind = "refresh_token"
                     /\ req[q].presented = refresh_token
                     /\ req[q].pc = "done"
                     /\ req[q].status = HTTP_200_OK

\* refresh_access_token, first half: the query and the expiry test.
\* TRUE when it goes on to rotate, FALSE when it returns None.
RefreshUsable(token_obj) ==
    /\ token_obj # NoToken
    /\ ~(now > token_obj.refresh_token_expires_at)

\* token() declares no form field `scope`: a scope that the request sends is
\* dropped before the handler runs, and is kept here only as what was sent.
RefreshBegin(p, client_id, client_secret, refresh_token, scope) ==
    LET client == validate_client(client_id)
        clientFailure == ClientFailure(client, client_secret)
        r == [Idle EXCEPT !.kind = "refresh_token", !.client_id = client_id,
                          !.client_secret = client_secret,
                          !.presented = refresh_token,
                          !.requested = scope,
                          !.late = RefreshRotated(refresh_token)]
        token_obj == FindByRefresh(refresh_token)
    IN  /\ FreeSlot(p)
        /\ FirstStep(p,
              IF clientFailure # "ok"
              THEN Failed(r, HTTP_400_BAD_REQUEST, "invalid_client", clientFailure)
              ELSE IF Falsy(refresh_token)
              THEN Failed(r, HTTP_400_BAD_REQUEST, "invalid_request",
                          "Refresh token required")
              ELSE IF ~RefreshUsable(token_obj)
              THEN Failed(r, HTTP_400_BAD_REQUEST, "invalid_grant",
                          "Invalid or expired refresh token")
              ELSE [r EXCEPT !.pc = "loaded", !.token_obj = token_obj])
        /\ UNCHANGED <<clients, codes, tokens, blacklist, now, ticks, nonce, minted, resp>>

\* Mutant: the lifetime of the refresh token is not renewed.
Rotated_oldRefreshExpiry(row) ==
    [row EXCEPT !.access_token = token_urlsafe(nonce + 1),
                !.refresh_token = token_urlsafe(nonce + 2),
                !.access_token_expires_at = now + ACCESS_TOKEN_EXPIRE_MINUTES]

\* Mutant: only the access token is replaced.
Rotated_keepsRefresh(row) ==
    [row EXCEPT !.access_token = token_urlsafe(nonce + 1),
                !.access_token_expires_at = now + ACCESS_TOKEN_EXPIRE_MINUTES,
                !.refresh_token_expires_at =
                    now + REFRESH_TOKEN_EXPIRE_DAYS * MinutesPerDay]

\* refresh_access_token, second half: the loaded row with its four rotated
\* columns, as the UPDATE ... WHERE id = :pk of db.commit() writes it.
Rotated(row) ==
    [row EXCEPT !.access_token = token_urlsafe(nonce + 1),
                !.refresh_token = token_urlsafe(nonce + 2),
                !.access_token_expires_at = now + ACCESS_TOKEN_EXPIRE_MINUTES,
                !.refresh_token_expires_at =
                    now + REFRESH_TOKEN_EXPIRE_DAYS * MinutesPerDay]

RefreshCommit(p) ==
    LET r == req[p]
        stored == {t \in tokens : t.id = r.token_obj.id}
    IN  /\ r.kind = "refresh_token"
        /\ r.pc = "loaded"
        /\ nonce + 2 <= Len(RandomNames)
        /\ IF stored = {}
           THEN \* the UPDATE matches no row: StaleDataError, `except Exception`
                /\ req' = [req EXCEPT ![p] =
                      Failed(r, HTTP_500_INTERNAL_SERVER_ERROR, "server_error",
                             "An error occurred processing the token request")]
                /\ UNCHANGED <<tokens, nonce>>
           ELSE /\ tokens' = (tokens \ stored)
                             \cup {Rotated(t) : t \in stored}
                /\ nonce' = nonce + 2
                /\ req' = [req EXCEPT ![p] =
                      [r EXCEPT !.pc = "rotated",
                                !.access_token = Rotated(r.token_obj).access_token,
                                !.refresh_token = Rotated(r.token_obj).refresh_token,
                                !.expires_in = expires_in]]
        /\ UNCHANGED <<clients, codes, blacklist, now, ticks, minted, answered, resp>>

\* Mutant: the rotation is written although the request fails.
RolledBack_written(rows, token_obj) ==
    (rows \ {token_obj}) \cup {Rotated(token_obj)}

\* The table after a transaction that set the four columns of token_obj and
\* never committed: the session closes, and the UPDATE was not sent or is
\* rolled back.
RolledBack(rows, token_obj) == rows

\* refresh_access_token raises between its query and the end of db.commit()
\* (the connection is lost, the statement times out); `except Exception` of
\* token() answers 500 server_error.
RefreshFails(p) ==
    LET r == req[p]
    IN  /\ r.kind = "refresh_token"
        /\ r.pc = "loaded"
        /\ tokens' = RolledBack(tokens, r.token_obj)
        /\ req' = [req EXCEPT ![p] =
              Failed(r, HTTP_500_INTERNAL_SERVER_ERROR, "server_error",
                     "An error occurred processing the token request")]
        /\ UNCHANGED <<clients, codes, blacklist, now, ticks, nonce, minted, answered, resp>>

\* token(): the query for the row by its new refresh token, and the response.
RefreshRespond(p) ==
    LET r == req[p]
        token_obj == FindByRefresh(r.refresh_token)
    IN  /\ r.kind = "refresh_token"
        /\ r.pc = "rotated"
        /\ req' = [req EXCEPT ![p] =
              IF token_obj = NoToken
              THEN Failed(r, HTTP_400_BAD_REQUEST, "server_error",
                          "Token not found after refresh")
              ELSE [r EXCEPT !.pc = "done", !.status = HTTP_200_OK,
                             !.token_type = "bearer",
                             !.scope = token_obj.scope]]
        /\ UNCHANGED <<clients, codes, tokens, blacklist, now, ticks, nonce, minted, answered, resp>>

(***************************************************************************)
(* src/app/auth/provider.py: PicardOAuthProvider.exchange_refresh_token,   *)
(* on a row of its token table, with the scopes the caller split from the  *)
(* request (None when the request names no scope).                         *)
(***************************************************************************)
\* scopes or token.scopes
ScopesOr(scopes, token_scopes) ==
    IF scopes = None \/ scopes = <<>> THEN token_scopes ELSE scopes

\* The row after `token.access_token = access_token; token.expires_at = ...`.
exchange_refresh_token(token) ==
    [token EXCEPT !.access_token = token_urlsafe(nonce + 1),
                  !.access_token_expires_at = now + ACCESS_TOKEN_EXPIRE_MINUTES]

ProviderRefresh(p, refresh_token, scopes) ==
    LET r == [Idle EXCEPT !.kind = "provider_refresh",
                          !.presented = refresh_token, !.requested = scopes]
        token == FindByRefresh(refresh_token)
        row == exchange_refresh_token(token)
    IN  /\ FreeSlot(p)
        /\ nonce < Len(RandomNames)
        /\ IF token = NoToken
           THEN /\ FirstStep(p, Failed(r, HTTP_400_BAD_REQUEST, "invalid_grant",
                                       "Refresh token not found"))
                /\ UNCHANGED <<tokens, nonce>>
           ELSE /\ tokens' = (tokens \ {token}) \cup {row}
                /\ nonce' = nonce + 1
                /\ req' = [req EXCEPT ![p] =
                      [r EXCEPT !.pc = "done", !.status = HTTP_200_OK,
                                !.token_obj = token,
                                !.access_token = row.access_token,
                                !.refresh_token = row.refresh_token,
                                !.token_type = "bearer",
                                !.expires_in = expires_in,
                                !.scope = ScopesOr(scopes, token.scope)]]
                /\ UNCHANGED answered
        /\ UNCHANGED <<clients, codes, blacklist, now, ticks, minted, resp>>

(***************************************************************************)
(* app/middleware/oauth.py and app/models/token_blacklist.py               *)
(***************************************************************************)
NoEntry == [id |-> 0, token_jti |-> None, blacklisted_at |-> 0, expires_at |-> 0]

\* validate_access_token: the row, or no row (None).
validate_access_token(token) ==
    LET token_obj == First({t \in tokens : t.access_token = token}, NoToken)
    IN  IF \/ token_obj = NoToken
           \/ now > token_obj.access_token_expires_at
           \/ token_obj.is_revoked
        THEN NoToken
        ELSE token_obj

\* TokenBlacklist.is_blacklisted: the entry it looks at, whether it deletes
\* that entry, and the value it returns.
BlacklistEntry(token_jti) ==
    First({b \in blacklist : b.token_jti = token_jti}, NoEntry)

\* Mutant: an entry is never past its expires_at.
BlacklistSweeps_never(token_jti) == FALSE

BlacklistSweeps(token_jti) ==
    LET entry == BlacklistEntry(token_jti)
    IN  entry # NoEntry /\ now > entry.expires_at

is_blacklisted(token_jti) ==
    IF BlacklistSweeps(token_jti) THEN FALSE
    ELSE BlacklistEntry(token_jti) # NoEntry

\* A call of TokenBlacklist.is_blacklisted(db, token_jti) by itself, as the
\* tests make it: the value it returns is kept in `active`.
IsBlacklistedCall(p, token_jti) ==
    LET r == [Idle EXCEPT !.kind = "is_blacklisted", !.presented = token_jti,
                          !.pc = "done", !.active = is_blacklisted(token_jti)]
    IN  /\ FreeSlot(p)
        /\ blacklist' = IF BlacklistSweeps(token_jti)
                        THEN blacklist \ {BlacklistEntry(token_jti)}
                        ELSE blacklist
        /\ FirstStep(p, r)
        /\ UNCHANGED <<clients, codes, tokens, now, ticks, nonce, minted, resp>>

\* `await TokenBlacklist.is_blacklisted(db, token_jti)`: is_blacklisted is a
\* plain classmethod, so the call runs to its end and returns a bool, and
\* awaiting a bool raises TypeError.
AwaitRaises(value) == value \in BOOLEAN

\* Some revoke_token call for this token has committed and returned True.
TokenRevoked(token) ==
    \E q \in Procs : /\ req[q].kind = "revoke"
                     /\ req[q].presented = token
                     /\ req[q].pc = "done"
                     /\ req[q].status = HTTP_200_OK

\* request.state after the test override
TestUserId == "00000000-0000-0000-0000-000000000001"

Unauthorized(r, description) ==
    Failed(r, HTTP_401_UNAUTHORIZED, "unauthorized", description)

\* call_next(request) with request.state.user_id and request.state.scopes
Forwarded(r, user_id, scopes) ==
    [r EXCEPT !.pc = "done", !.forwarded = TRUE, !.user_id = user_id,
              !.scope = scopes]

\* A URL path is the sequence of its pieces: "/api/memories/" is "/" and
\* "api/memories/".  Every path of a request starts with "/".
Root == <<"/">>
MemoriesPath == <<"/", "api/memories/">>
HealthPath == <<"/", "health">>

PUBLIC_ENDPOINTS ==
    {<<"/", "health">>, <<"/", "docs">>, <<"/", "redoc">>,
     <<"/", "openapi.json">>, <<"/", "api/oauth/token">>,
     <<"/", "api/oauth/authorize">>, <<"/", "api/oauth/consent">>,
     <<"/", "api/users/register">>, <<"/", "api/users/login">>,
     Root, <<"/", "static">>}

\* str.startswith
startswith(path, prefix) ==
    /\ Len(prefix) <= Len(path)
    /\ SubSeq(path, 1, Len(prefix)) = prefix

\* any(path.startswith(endpoint) for endpoint in PUBLIC_ENDPOINTS)
IsPublic(path) == \E endpoint \in PUBLIC_ENDPOINTS : startswith(path, endpoint)

\* verify_token_middleware up to and including validate_access_token.
BearerBegin(p, path, has_bearer, token, override) ==
    LET r == [Idle EXCEPT !.kind = "bearer", !.path = path,
                          !.presented = IF has_bearer THEN token ELSE None,
                          !.override = override,
                          !.late = has_bearer /\ TokenRevoked(token)]
        token_obj == validate_access_token(token)
    IN  /\ FreeSlot(p)
        /\ FirstStep(p,
              IF IsPublic(path)
              THEN Forwarded(r, None, <<>>)
              ELSE IF ~has_bearer
              THEN Unauthorized(r, "Missing or invalid token")
              ELSE IF override
              THEN Forwarded(r, TestUserId, <<>>)
              ELSE IF token_obj = NoToken
              THEN Unauthorized(r, "Token is invalid or expired")
              ELSE [r EXCEPT !.pc = "token_valid", !.token_obj = token_obj])
        /\ UNCHANGED <<clients, codes, tokens, blacklist, now, ticks, nonce, minted, resp>>

\* verify_token_middleware from the blacklist check to the end.  The step
\* needs a request that BearerBegin left at "token_valid", and there is none:
\* PUBLIC_ENDPOINTS holds "/", the start of every path.
BearerBlacklist(p) ==
    LET r0 == req[p]
        r == [r0 EXCEPT !.late = TokenRevoked(r0.presented)]
        listed == is_blacklisted(r.presented)
    IN  /\ r.kind = "bearer"
        /\ r.pc = "token_valid"
        /\ blacklist' = IF BlacklistSweeps(r.presented)
                        THEN blacklist \ {BlacklistEntry(r.presented)}
                        ELSE blacklist
        /\ req' = [req EXCEPT ![p] =
              IF AwaitRaises(listed)
              THEN Unauthorized(r, "Error validating token")
              ELSE IF listed
              THEN Unauthorized(r, "Token has been revoked")
              ELSE Forwarded(r, r.token_obj.user_id, r.token_obj.scope)]
        /\ UNCHANGED <<clients, codes, tokens, now, ticks, nonce, minted, answered, resp>>

\* revoke_token: validate_access_token.  Status 400 stands for the return
\* value False, 200 for True, as revoke_token_endpoint answers them.
RevokeBegin(p, token) ==
    LET r == [Idle EXCEPT !.kind = "revoke", !.presented = token]
        token_obj == validate_access_token(token)
    IN  /\ FreeSlot(p)
        /\ FirstStep(p,
              IF token_obj = NoToken
              THEN Failed(r, HTTP_400_BAD_REQUEST, None, "Failed to revoke token")
              ELSE [r EXCEPT !.pc = "revoking", !.token_obj = token_obj])
        /\ UNCHANGED <<clients, codes, tokens, blacklist, now, ticks, nonce, minted, resp>>

\* Mutant: the entry expires when it is made.
blacklist_entry_expiresNow(token, token_obj) ==
    [id |-> nonce + 1, token_jti |-> token, blacklisted_at |-> now,
     expires_at |-> now]

\* TokenBlacklist(token_jti=token, blacklisted_at=utcnow(), reason=reason,
\*                expires_at=fromisoformat(token_obj.access_token_expires_at))
blacklist_entry(token, token_obj) ==
    [id |-> nonce + 1, token_jti |-> token, blacklisted_at |-> now,
     expires_at |-> token_obj.access_token_expires_at]

\* revoke_token: db.add(blacklist_entry); db.commit(); return True.
RevokeCommit(p) ==
    LET r == req[p]
        entry == blacklist_entry(r.presented, r.token_obj)
    IN  /\ r.kind = "revoke"
        /\ r.pc = "revoking"
        /\ nonce < Len(RandomNames)
        /\ blacklist' = blacklist \cup {entry}
        /\ nonce' = nonce + 1
        /\ req' = [req EXCEPT ![p] = [r EXCEPT !.pc = "done", !.status = HTTP_200_OK]]
        /\ UNCHANGED <<clients, codes, tokens, now, ticks, minted, answered, resp>>

(***************************************************************************)
(* app/utils/auth.py: get_current_user, and the endpoints behind           *)
(* require_authenticated_user as a request reaches them.                   *)
(***************************************************************************)
\* Mutant: is_active is not looked at.
ActiveUser_inactiveToo(user_id) ==
    First({u \in users : u.id = user_id}, NoUser)

\* db.query(User).filter(User.id == user_id).first(), kept `if user and
\* user.is_active`.
ActiveUser(user_id) ==
    LET user == First({u \in users : u.id = user_id}, NoUser)
    IN  IF user # NoUser /\ user.is_active THEN user ELSE NoUser

\* One of the first two branches: the user of the Token row that
\* validate_access_token returns for the string.
UserOfToken(token) ==
    LET token_obj == validate_access_token(token)
    IN  IF Falsy(token) \/ token_obj = NoToken THEN NoUser
        ELSE ActiveUser(token_obj.user_id)

\* uuid.UUID(user_id_param): the id, or None where it raises ValueError.
UUID(user_id_param) ==
    IF user_id_param = "not-a-uuid" THEN None ELSE user_id_param

\* get_current_user: the bearer token, then the session_token cookie, then
\* the user_id query parameter; NoUser stands for None.
get_current_user(presented) ==
    IF UserOfToken(presented.token) # NoUser
    THEN UserOfToken(presented.token)
    ELSE IF UserOfToken(presented.session_token) # NoUser
    THEN UserOfToken(presented.session_token)
    ELSE IF ~Falsy(presented.user_id) /\ UUID(presented.user_id) # None
    THEN ActiveUser(UUID(presented.user_id))
    ELSE NoUser

\* POST /consent as it arrives: require_authenticated_user, then consent.
ConsentRequest(presented, client_id, redirect_uri, scope, state, decision, code_challenge, code_challenge_method) ==
    ConsentHandler(client_id, redirect_uri, scope, state, decision,
                   code_challenge, code_challenge_method,
                   get_current_user(presented).id, presented)

\* POST /tokens/revoke as it arrives, with the token to revoke as the bearer
\* token of the request: require_authenticated_user, then the endpoint.
RevokeRequest(p, token) ==
    LET r == [Idle EXCEPT !.kind = "revoke", !.presented = token]
    IN  IF get_current_user([NoPresented EXCEPT !.token = token]) = NoUser
        THEN /\ FreeSlot(p)
             /\ FirstStep(p, Failed(r, HTTP_401_UNAUTHORIZED, None,
                                    "Not authenticated"))
             /\ UNCHANGED <<clients, codes, tokens, blacklist, now, ticks, nonce, minted, resp>>
        ELSE RevokeBegin(p, token)

(***************************************************************************)
(* app/api/endpoints/token_management.py: introspect_token, called by a    *)
(* signed-in user.                                                         *)
(***************************************************************************)
\* return {"active": False}
Inactive(r) == [r EXCEPT !.pc = "done", !.status = HTTP_200_OK, !.active = FALSE]

\* introspect_token: validate_access_token.
IntrospectBegin(p, token) ==
    LET r == [Idle EXCEPT !.kind = "introspect", !.presented = token]
        token_obj == validate_access_token(token)
    IN  /\ FreeSlot(p)
        /\ FirstStep(p,
              IF token_obj = NoToken
              THEN Inactive(r)
              ELSE [r EXCEPT !.pc = "token_valid", !.token_obj = token_obj])
        /\ UNCHANGED <<clients, codes, tokens, blacklist, now, ticks, nonce, minted, resp>>

\* introspect_token from `await TokenBlacklist.is_blacklisted(db, token_jti)`
\* to the end.  The handler catches no exception: one that is raised is
\* answered 500 by the server.
IntrospectBlacklist(p) ==
    LET r == req[p]
        listed == is_blacklisted(r.presented)
        client == First({c \in clients : c.id = r.token_obj.client_id}, NoClient)
    IN  /\ r.kind = "introspect"
        /\ r.pc = "token_valid"
        /\ blacklist' = IF BlacklistSweeps(r.presented)
                        THEN blacklist \ {BlacklistEntry(r.presented)}
                        ELSE blacklist
        /\ req' = [req EXCEPT ![p] =
              IF AwaitRaises(listed)
              THEN Failed(r, HTTP_500_INTERNAL_SERVER_ERROR, None,
                          "Internal Server Error")
              ELSE IF listed
              THEN Inactive(r)
              ELSE [r EXCEPT !.pc = "done", !.status = HTTP_200_OK,
                             !.active = TRUE,
                             !.scope = r.token_obj.scope,
                             !.client_id = client.client_id,
                             !.user_id = r.token_obj.user_id,
                             !.exp = r.token_obj.access_token_expires_at]]
        /\ UNCHANGED <<clients, codes, tokens, now, ticks, nonce, minted, answered, resp>>

\* The elements of a list.
Elements(list) == {list[i] : i \in 1..Len(list)}

\* check_scopes: all(scope in user_scopes for scope in required_scopes)
check_scopes(user_scopes, required_scopes) ==
    \A scope \in required_scopes : scope \in Elements(user_scopes)

\* The dependency require_scopes(required_scopes) of the handler that
\* call_next reached, on the request state the middleware left: r.scope is
\* request.state.scopes where the middleware set it, and otherwise stands for
\* the default [] of getattr.
CheckScopes(required_scopes) ==
    LET r == [answered EXCEPT !.required = required_scopes]
    IN  /\ answered.kind = "bearer"
        /\ answered.pc = "done"
        /\ answered.forwarded
        /\ answered' =
              IF check_scopes(r.scope, required_scopes)
              THEN [r EXCEPT !.pc = "handler"]
              ELSE [r EXCEPT !.pc = "denied", !.status = HTTP_403_FORBIDDEN,
                             !.error = "insufficient_scope"]
        /\ UNCHANGED <<clients, codes, tokens, blacklist, now, ticks, nonce, minted, req, resp>>

(***************************************************************************)
(* Initial states.                                                         *)
(***************************************************************************)
\* The server with its registered client and nothing issued.
Init ==
    /\ clients = {ClientA}
    /\ codes = {}
    /\ tokens = {}
    /\ blacklist = {}
    /\ now = 0
    /\ ticks = 0
    /\ nonce = 0
    /\ minted = 0
    /\ req = [p \in Procs |-> Idle]
    /\ answered = Idle
    /\ resp = NoResponse

\* The server with two registered clients and nothing issued.
InitClients ==
    /\ clients = {ClientA, ClientB}
    /\ codes = {}
    /\ tokens = {}
    /\ blacklist = {}
    /\ now = 0
    /\ ticks = 0
    /\ nonce = 0
    /\ minted = 0
    /\ req = [p \in Procs |-> Idle]
    /\ answered = Idle
    /\ resp = NoResponse

\* The Token row that create_access_token makes at time 0 for the first code.
IssuedToken ==
    [id |-> 1,
     access_token |-> token_urlsafe(1),
     refresh_token |-> token_urlsafe(2),
     client_id |-> ClientA.id,
     user_id |-> "alice",
     scope |-> <<"read">>,
     access_token_expires_at |-> ACCESS_TOKEN_EXPIRE_MINUTES,
     refresh_token_expires_at |-> REFRESH_TOKEN_EXPIRE_DAYS * MinutesPerDay,
     is_revoked |-> FALSE]

\* The server after one code exchange: the Token row create_access_token made.
InitIssued ==
    /\ clients = {ClientA}
    /\ codes = {}
    /\ blacklist = {}
    /\ now = 0
    /\ ticks = 0
    /\ nonce = 2
    /\ minted = 0
    /\ tokens = {IssuedToken}
    /\ req = [p \in Procs |-> Idle]
    /\ answered = Idle
    /\ resp = NoResponse

\* The server with two registered clients, after one code exchange of the
\* first.
InitIssuedClients ==
    /\ clients = {ClientA, ClientB}
    /\ codes = {}
    /\ blacklist = {}
    /\ now = 0
    /\ ticks = 0
    /\ nonce = 2
    /\ minted = 0
    /\ tokens = {IssuedToken}
    /\ req = [p \in Procs |-> Idle]
    /\ answered = Idle
    /\ resp = NoResponse

\* The Token row of a user whose is_active was cleared after it was issued.
InactiveUserToken ==
    [IssuedToken EXCEPT !.id = 2, !.access_token = token_urlsafe(3),
                        !.refresh_token = token_urlsafe(4),
                        !.user_id = InactiveUser.id]

\* The server after two code exchanges, one for each user.
InitSignedIn ==
    /\ clients = {ClientA}
    /\ codes = {}
    /\ blacklist = {}
    /\ now = 0
    /\ ticks = 0
    /\ nonce = 4
    /\ minted = 0
    /\ tokens = {IssuedToken, InactiveUserToken}
    /\ req = [p \in Procs |-> Idle]
    /\ answered = Idle
    /\ resp = NoResponse

\* The same server, where the is_revoked column of the row may have been set
\* in the database: the application reads the column and never writes it.
InitRevocable ==
    /\ clients = {ClientA}
    /\ codes = {}
    /\ blacklist = {}
    /\ now = 0
    /\ ticks = 0
    /\ nonce = 2
    /\ minted = 0
    /\ \E is_revoked \in BOOLEAN :
          tokens = {[IssuedToken EXCEPT !.is_revoked = is_revoked]}
    /\ req = [p \in Procs |-> Idle]
    /\ answered = Idle
    /\ resp = NoResponse

(***************************************************************************)
(* The inputs of the requests.                                             *)
(***************************************************************************)
Paths == {MemoriesPath, HealthPath}
RequiredScopes == {{"read"}, {"read", "write"}}
RedirectUris == {"u1", "evil", ""}
ClientIds == {"cA", "cX"}
Scopes == {<<"read">>, <<"read", "admin">>}
States == {"st", ""}
Decisions == {"approve", "deny", "APPROVE"}
Challenges == {None, "ch1"}
ChallengeMethods == {None, "S256", "plain"}
Users == {None, "alice"}
ResponseTypes == {"code", "token"}
OptVerifiers == {None} \cup Verifiers
Secrets == {"sA", "bad"}
TokenClientIds == {"cA", "cB", "cX"}
TokenSecrets == {None, "sA", "sB"}

\* The credentials a client can present: those in the store, those some
\* request has presented before, and one that never existed.
KnownCodes ==
    {c.code : c \in codes} \cup {req[q].code : q \in Procs} \cup {"bogus"}
KnownRefreshTokens ==
    {t.refresh_token : t \in tokens} \cup {req[q].presented : q \in Procs}
        \cup {"bogus"}
KnownAccessTokens ==
    {t.access_token : t \in tokens} \cup {req[q].presented : q \in Procs}
        \cup {"bogus"}

(***************************************************************************)
(* /authorize and /consent alone.                                          *)
(***************************************************************************)
NextAuthorize ==
    \/ \E response_type \in ResponseTypes, client_id \in ClientIds,
          redirect_uri \in RedirectUris, scope \in Scopes, state \in States,
          code_challenge \in Challenges, method \in ChallengeMethods,
          current_user \in Users :
          Authorize(response_type, client_id, redirect_uri, scope, state,
                    code_challenge, method, current_user)
    \/ \* Form(...): an empty value is a missing field, and the handler does not run
       \E client_id \in ClientIds, redirect_uri \in RedirectUris \ {""},
          state \in States \ {""}, decision \in Decisions,
          code_challenge \in Challenges, method \in ChallengeMethods,
          current_user \in Users :
          Consent(client_id, redirect_uri, <<"read">>, state, decision,
                  code_challenge, method, current_user)

SpecAuthorize == Init /\ [][NextAuthorize]_vars

(***************************************************************************)
(* /authorize alone, with scope strings of none, one and two scopes.       *)
(***************************************************************************)
GuardScopes ==
    {<<>>, <<"read">>, <<"read", "write">>, <<"read", "admin">>,
     <<"admin", "read">>}

NextGuards ==
    \E response_type \in ResponseTypes, client_id \in ClientIds,
       redirect_uri \in RedirectUris, scope \in GuardScopes, state \in States,
       code_challenge \in Challenges, method \in ChallengeMethods,
       current_user \in Users :
       Authorize(response_type, client_id, redirect_uri, scope, state,
                 code_challenge, method, current_user)

SpecGuards == Init /\ [][NextGuards]_vars

(***************************************************************************)
(* /consent alone: submissions of a signed-in or anonymous user.           *)
(***************************************************************************)
NextConsent ==
    \E client_id \in ClientIds, redirect_uri \in RedirectUris \ {""},
       scope \in Scopes, state \in {"st", "st2"}, decision \in Decisions,
       code_challenge \in Challenges, method \in {None, "S256"},
       current_user \in Users :
       Consent(client_id, redirect_uri, scope, state, decision,
               code_challenge, method, current_user)

SpecConsent == Init /\ [][NextConsent]_vars

(***************************************************************************)
(* Codes issued by /consent to the registered client and exchanged at      *)
(* /token by concurrent requests with the client's credentials, all within *)
(* the lifetime of the codes.                                              *)
(***************************************************************************)
NextExchange ==
    \/ \E pkce \in {<<None, None>>, <<"ch1", "S256">>} :
          Consent("cA", "u1", <<"read">>, "st", "approve",
                  pkce[1], pkce[2], "alice")
    \/ \E p \in Procs, code \in KnownCodes, redirect_uri \in {"u1", "u2"},
          code_verifier \in OptVerifiers :
          ExchangeBegin(p, code, redirect_uri, "cA", "sA", code_verifier)
    \/ \E p \in Procs : ExchangeCreateToken(p)
    \/ \E p \in Procs : ExchangeDeleteCode(p)

SpecExchange == Init /\ [][NextExchange]_vars

(***************************************************************************)
(* Codes issued by /consent and exchanged at /token while the clock runs   *)
(* to the end of their lifetime and past it.                               *)
(***************************************************************************)
NextExpiry ==
    \/ Consent("cA", "u1", <<"read">>, "st", "approve", "ch1", "S256", "alice")
    \/ \E p \in Procs, code \in KnownCodes :
          ExchangeBegin(p, code, "u1", "cA", "sA", "v1")
    \/ \E p \in Procs : ExchangeCreateToken(p)
    \/ \E p \in Procs : ExchangeDeleteCode(p)
    \/ \E d \in UpTo(AUTH_CODE_EXPIRE_MINUTES) : Tick(d)

SpecExpiry == Init /\ [][NextExpiry]_vars

(***************************************************************************)
(* Code exchanges whose database statements can fail.                      *)
(***************************************************************************)
NextFailure ==
    \/ Consent("cA", "u1", <<"read">>, "st", "approve", "ch1", "S256", "alice")
    \/ \E p \in Procs, code \in KnownCodes, code_verifier \in OptVerifiers :
          ExchangeBegin(p, code, "u1", "cA", "sA", code_verifier)
    \/ \E p \in Procs : ExchangeCreateToken(p)
    \/ \E p \in Procs : ExchangeDeleteCode(p)
    \/ \E p \in Procs : ExchangeFails(p)

SpecFailure == Init /\ [][NextFailure]_vars

(***************************************************************************)
(* POST /token with every grant type, by two registered clients and an     *)
(* unknown one, on codes issued to the first client.                       *)
(***************************************************************************)
NextClients ==
    \/ Consent("cA", "u1", <<"read">>, "st", "approve", "ch1", "S256", "alice")
    \/ \E p \in Procs, code \in KnownCodes, client_id \in TokenClientIds,
          client_secret \in TokenSecrets :
          ExchangeBegin(p, code, "u1", client_id, client_secret, "v1")
    \/ \E p \in Procs : ExchangeCreateToken(p)
    \/ \E p \in Procs : ExchangeDeleteCode(p)
    \/ \E p \in Procs, client_id \in {"cA", "cX"},
          client_secret \in TokenSecrets, refresh_token \in KnownRefreshTokens :
          RefreshBegin(p, client_id, client_secret, refresh_token, None)
    \/ \E p \in Procs : RefreshCommit(p)
    \/ \E p \in Procs : RefreshRespond(p)
    \/ \E p \in Procs, client_id \in TokenClientIds,
          client_secret \in TokenSecrets :
          OtherGrant(p, client_id, client_secret)

SpecClients == InitClients /\ [][NextClients]_vars

(***************************************************************************)
(* Refresh grants, concurrent, on an issued token.                         *)
(***************************************************************************)
NextRefresh ==
    \/ \E p \in Procs, client_secret \in Secrets,
          refresh_token \in KnownRefreshTokens :
          RefreshBegin(p, "cA", client_secret, refresh_token, None)
    \/ \E p \in Procs : RefreshCommit(p)
    \/ \E p \in Procs : RefreshRespond(p)
    \/ \E d \in UpTo(REFRESH_TOKEN_EXPIRE_DAYS * MinutesPerDay) : Tick(d)

SpecRefresh == InitIssued /\ [][NextRefresh]_vars

\* The same requests on a Token row that may be marked revoked.
SpecRevocable == InitRevocable /\ [][NextRefresh]_vars

(***************************************************************************)
(* Refresh grants whose rotation can fail before it is committed.          *)
(***************************************************************************)
NextRotationFailure ==
    \/ \E p \in Procs, refresh_token \in KnownRefreshTokens :
          RefreshBegin(p, "cA", "sA", refresh_token, None)
    \/ \E p \in Procs : RefreshCommit(p)
    \/ \E p \in Procs : RefreshRespond(p)
    \/ \E p \in Procs : RefreshFails(p)

SpecRotationFailure == InitIssued /\ [][NextRotationFailure]_vars

(***************************************************************************)
(* Refresh grants that ask for a scope, at the /token endpoint of          *)
(* mcp_server and at PicardOAuthProvider of src/app.                       *)
(***************************************************************************)
RequestedScopes == {None, <<"read">>, <<"read", "write">>}

NextNarrow ==
    \/ \E p \in Procs, refresh_token \in KnownRefreshTokens,
          scope \in RequestedScopes :
          RefreshBegin(p, "cA", "sA", refresh_token, scope)
    \/ \E p \in Procs : RefreshCommit(p)
    \/ \E p \in Procs : RefreshRespond(p)
    \/ \E p \in Procs, refresh_token \in KnownRefreshTokens,
          scope \in RequestedScopes :
          ProviderRefresh(p, refresh_token, scope)

SpecNarrow == InitIssued /\ [][NextNarrow]_vars

(***************************************************************************)
(* Bearer validation and revocation, concurrent, on an issued token.       *)
(***************************************************************************)
NextBearer ==
    \/ \E p \in Procs, path \in Paths, has_bearer \in BOOLEAN,
          token \in KnownAccessTokens, override \in BOOLEAN :
          BearerBegin(p, path, has_bearer, token, override)
    \/ \E required_scopes \in RequiredScopes : CheckScopes(required_scopes)
    \/ \E p \in Procs, token \in KnownAccessTokens : RevokeBegin(p, token)
    \/ \E p \in Procs : RevokeCommit(p)
    \/ \E d \in UpTo(ACCESS_TOKEN_EXPIRE_MINUTES) : Tick(d)

SpecBearer == InitIssued /\ [][NextBearer]_vars

(***************************************************************************)
(* Introspection and revocation, concurrent, on an issued token.           *)
(***************************************************************************)
NextIntrospect ==
    \/ \E p \in Procs, token \in KnownAccessTokens : IntrospectBegin(p, token)
    \/ \E p \in Procs : IntrospectBlacklist(p)
    \/ \E p \in Procs, token \in KnownAccessTokens : RevokeBegin(p, token)
    \/ \E p \in Procs : RevokeCommit(p)
    \/ \E d \in UpTo(ACCESS_TOKEN_EXPIRE_MINUTES) : Tick(d)

SpecIntrospect == InitIssued /\ [][NextIntrospect]_vars

(***************************************************************************)
(* A code issued by /consent, exchanged, and the token refreshed, while    *)
(* the clock runs within the lifetime of the code and to the end of the    *)
(* lifetime of the refresh token.                                          *)
(***************************************************************************)
NextLifetimes ==
    \/ Consent("cA", "u1", <<"read">>, "st", "approve", "ch1", "S256", "alice")
    \/ \E p \in Procs, auth_code \in codes :
          ExchangeBegin(p, auth_code.code, "u1", "cA", "sA", "v1")
    \/ \E p \in Procs : ExchangeCreateToken(p)
    \/ \E p \in Procs : ExchangeDeleteCode(p)
    \/ \E p \in Procs, token_obj \in tokens :
          RefreshBegin(p, "cA", "sA", token_obj.refresh_token, None)
    \/ \E p \in Procs : RefreshCommit(p)
    \/ \E p \in Procs : RefreshRespond(p)
    \/ \E d \in {1, REFRESH_TOKEN_EXPIRE_DAYS * MinutesPerDay} : Tick(d)

SpecLifetimes == Init /\ [][NextLifetimes]_vars

(***************************************************************************)
(* /consent as requests reach it: with any of the three things that        *)
(* get_current_user reads, while access tokens expire.                     *)
(***************************************************************************)
UserIdParams == {None, "alice", "bob", "ghost", "not-a-uuid"}

Presentations ==
    {[token |-> token, session_token |-> session_token, user_id |-> user_id] :
        token \in {None} \cup KnownAccessTokens,
        session_token \in {None} \cup {t.access_token : t \in tokens},
        user_id \in UserIdParams}

NextSignedIn ==
    \/ \E presented \in Presentations, decision \in {"approve", "deny"} :
          ConsentRequest(presented, "cA", "u1", <<"read">>, "st", decision,
                         "ch1", "S256")
    \/ \E d \in UpTo(ACCESS_TOKEN_EXPIRE_MINUTES) : Tick(d)

SpecSignedIn == InitSignedIn /\ [][NextSignedIn]_vars

(***************************************************************************)
(* TokenBlacklist.is_blacklisted on a blacklist that revocations fill,     *)
(* while the entries reach their expires_at and pass it.                   *)
(***************************************************************************)
NextBlacklist ==
    \/ \E p \in Procs, token \in KnownAccessTokens : RevokeBegin(p, token)
    \/ \E p \in Procs : RevokeCommit(p)
    \/ \E p \in Procs, token_jti \in KnownAccessTokens :
          IsBlacklistedCall(p, token_jti)
    \/ \E d \in UpTo(ACCESS_TOKEN_EXPIRE_MINUTES) : Tick(d)

SpecBlacklist == InitIssued /\ [][NextBlacklist]_vars

(***************************************************************************)
(* Revocation and refresh grants, concurrent, on an issued token.          *)
(***************************************************************************)
NextRevokeRefresh ==
    \/ \E p \in Procs, token_obj \in tokens :
          RevokeBegin(p, token_obj.access_token)
    \/ \E p \in Procs : RevokeCommit(p)
    \/ \E p \in Procs, refresh_token \in KnownRefreshTokens :
          RefreshBegin(p, "cA", "sA", refresh_token, None)
    \/ \E p \in Procs : RefreshCommit(p)
    \/ \E p \in Procs : RefreshRespond(p)

SpecRevokeRefresh == InitIssued /\ [][NextRevokeRefresh]_vars

(***************************************************************************)
(* Refresh grants by two registered clients on the token of the first.     *)
(***************************************************************************)
NextCrossClient ==
    \/ \E p \in Procs, client_id \in {"cA", "cB"}, client_secret \in {"sA", "sB"},
          refresh_token \in KnownRefreshTokens :
          RefreshBegin(p, client_id, client_secret, refresh_token, None)
    \/ \E p \in Procs : RefreshCommit(p)
    \/ \E p \in Procs : RefreshRespond(p)

SpecCrossClient == InitIssuedClients /\ [][NextCrossClient]_vars

(***************************************************************************)
(* /tokens/revoke and /consent as requests reach them, signed in with an   *)
(* access token as bearer token or as session_token cookie, while the      *)
(* token may be revoked and may expire.                                    *)
(***************************************************************************)
TokenPresentations ==
    {[NoPresented EXCEPT !.token = token] : token \in KnownAccessTokens}
    \cup {[NoPresented EXCEPT !.session_token = token] : token \in KnownAccessTokens}

NextRevokedSignIn ==
    \/ \E p \in Procs, token \in KnownAccessTokens : RevokeRequest(p, token)
    \/ \E p \in Procs : RevokeCommit(p)
    \/ \E presented \in TokenPresentations :
          ConsentRequest(presented, "cA", "u1", <<"read">>, "st", "approve",
                         "ch1", "S256")
    \/ \E d \in UpTo(ACCESS_TOKEN_EXPIRE_MINUTES) : Tick(d)

SpecRevokedSignIn == InitIssued /\ [][NextRevokedSignIn]_vars

(***************************************************************************)
(* The administrator deletes the first client while its codes are issued   *)
(* and exchanged, and its tokens refreshed by a second client.             *)
(***************************************************************************)
Administrator == [username |-> "admin", password |-> "adminpassword"]

\* The codes and refresh tokens of the first client: those in the store, and
\* those that were in it when they were presented or handed out.
IssuedCodes ==
    {c.code : c \in codes} \cup ({req[q].code : q \in Procs} \ {None})
IssuedRefreshTokens ==
    {t.refresh_token : t \in tokens} \cup {IssuedToken.refresh_token}

NextDeleteClient ==
    \/ Consent("cA", "u1", <<"read">>, "st", "approve", "ch1", "S256", "alice")
    \/ \E p \in Procs, code \in IssuedCodes :
          ExchangeBegin(p, code, "u1", "cA", "sA", "v1")
    \/ \E p \in Procs : ExchangeCreateToken(p)
    \/ \E p \in Procs : ExchangeDeleteCode(p)
    \/ \E p \in Procs, refresh_token \in IssuedRefreshTokens :
          RefreshBegin(p, ClientB.client_id, ClientB.client_secret,
                       refresh_token, None)
    \/ \E p \in Procs : RefreshCommit(p)
    \/ \E p \in Procs : RefreshRespond(p)
    \/ delete_oauth_client(Administrator, ClientA.client_id)

SpecDeleteClient == InitIssuedClients /\ [][NextDeleteClient]_vars

(***************************************************************************)
(* The administrator endpoints.                                            *)
(***************************************************************************)
Credentials ==
    {NoCredentials,
     [username |-> "admin", password |-> "adminpassword"],
     [username |-> "admin", password |-> "userpassword"],
     [username |-> "regular", password |-> "userpassword"],
     [username |-> "member", password |-> "memberpassword"],
     [username |-> "ghost", password |-> "adminpassword"]}

\* Bodies of register and update requests.
ClientData ==
    {[redirect_uris |-> uris, scopes |-> scopes, given |-> given] :
        uris \in {{}, {"u1"}}, scopes \in {{}, {"memories:read"}, {"admin"}},
        given \in {{"redirect_uris", "scopes"}, {"redirect_uris"}}}

NextAdmin ==
    \/ \E credentials \in Credentials, client_data \in ClientData :
          register_client(credentials, client_data)
    \/ \E op \in {"list", "get"}, credentials \in Credentials, client_id \in ClientIds :
          read_oauth_clients(op, credentials, client_id)
    \/ \E credentials \in Credentials, client_id \in ClientIds,
          client_data \in ClientData :
          update_oauth_client(credentials, client_id, client_data)
    \/ \E credentials \in Credentials, client_id \in ClientIds :
          delete_oauth_client(credentials, client_id)

SpecAdmin == Init /\ [][NextAdmin]_vars

(***************************************************************************)
(* Properties.                                                             *)
(***************************************************************************)
\* Every request the state remembers: in flight, answered, or idle.
AllRequests == {req[p] : p \in Procs} \cup {answered}

\* The request came with the credentials of its client.
Authenticated(r) ==
    ClientFailure(validate_client(r.client_id), r.client_secret) = "ok"

IsExchange(r) == r.kind = "authorization_code"
IsRefresh(r) == r.kind = "refresh_token"
IsBearer(r) == r.kind = "bearer"

\* The request was answered 400 invalid_grant and got no token.
InvalidGrant(r) ==
    /\ r.pc = "done"
    /\ r.status = HTTP_400_BAD_REQUEST
    /\ r.error = "invalid_grant"
    /\ r.access_token = None

\* C1: of the token requests that present one authorization code, at most
\* one gets a token pair; so at most one Token row is created from a code,
\* in any interleaving of the requests.
C1_OneTokenPerCode ==
    \A p, q \in Procs :
        (/\ p # q
         /\ IsExchange(req[p]) /\ IsExchange(req[q])
         /\ req[p].code = req[q].code)
        => ~(req[p].access_token # None /\ req[q].access_token # None)

\* C2: once a token request has exchanged code K, no row of K is left, and
\* every request that presents K afterwards, with the client's credentials,
\* a redirect_uri and a verifier, is answered 400 invalid_grant and creates
\* no Token row.
C2_CodeIsSingleUse ==
    \A r \in AllRequests :
        /\ (IsExchange(r) /\ r.pc = "done" /\ r.status = HTTP_200_OK)
           => ~(\E c \in codes : c.code = r.code)
        /\ (/\ IsExchange(r) /\ r.late /\ Authenticated(r)
            /\ MissingParameter(r.code, r.redirect_uri, r.code_verifier) = "ok")
           => InvalidGrant(r)

C2_Witness ==
    /\ IsExchange(answered) /\ answered.late /\ InvalidGrant(answered)
    /\ answered.redirect_uri = "u1" /\ answered.code_verifier = "v1"

\* The step answers slot p's refresh grant with 200.
RefreshSucceeds(p) ==
    /\ IsRefresh(req[p])
    /\ req[p].pc = "rotated"
    /\ req'[p].pc = "done"
    /\ req'[p].status = HTTP_200_OK

\* C3, the response: a refresh grant answered 200 carries an access token
\* and a refresh token that both differ from the pair it replaced, and the
\* Token row then stores that new pair.
C3_NewPair ==
    \A p \in Procs :
        RefreshSucceeds(p) =>
            LET r == req'[p]
                old == {r.token_obj.access_token, r.token_obj.refresh_token,
                        r.presented}
            IN  /\ r.access_token \notin old
                /\ r.refresh_token \notin old
                /\ \E t \in tokens' : /\ t.access_token = r.access_token
                                      /\ t.refresh_token = r.refresh_token

\* C3, afterwards: no row holds the replaced refresh token, and every refresh
\* grant that presents it afterwards, with the client's credentials, is
\* answered 400 invalid_grant.
C3_OldTokenIsDead ==
    \A r \in AllRequests :
        /\ (IsRefresh(r) /\ r.pc = "done" /\ r.status = HTTP_200_OK)
           => ~(\E t \in tokens : t.refresh_token = r.presented)
        /\ (IsRefresh(r) /\ r.late /\ Authenticated(r)) => InvalidGrant(r)

\* C3: a successful refresh grant rotates both strings, and the replaced
\* refresh token never authenticates again.
C3_RefreshRotates == [][C3_NewPair]_vars /\ []C3_OldTokenIsDead

C3_Witness ==
    /\ IsRefresh(answered) /\ answered.late /\ InvalidGrant(answered)
    /\ \E p \in Procs : /\ IsRefresh(req[p]) /\ req[p].status = HTTP_200_OK
                        /\ req[p].presented = answered.presented

\* C4: of the refresh grants that present one refresh token, at most one is
\* answered 200, in any interleaving of the requests.
C4_RotatedAtMostOnce ==
    \A p, q \in Procs :
        (/\ p # q
         /\ IsRefresh(req[p]) /\ IsRefresh(req[q])
         /\ req[p].presented = req[q].presented)
        => ~(/\ req[p].pc = "done" /\ req[p].status = HTTP_200_OK
             /\ req[q].pc = "done" /\ req[q].status = HTTP_200_OK)

\* C5: a request for /api/memories/ that presents access token T, and that
\* verify_token_middleware handles after revoke_token has committed the
\* blacklist row of T, is answered 401 and is not forwarded to the handler.
C5_RevokedIsRejected ==
    \A r \in AllRequests :
        (/\ IsBearer(r) /\ r.pc = "done" /\ r.path = MemoriesPath
         /\ r.presented # None /\ r.late)
        => (r.status = HTTP_401_UNAUTHORIZED /\ ~r.forwarded)

\* C6: every AuthorizationCode row has a code_challenge and the
\* code_challenge_method S256.
C6_CodesCarryPkce ==
    \A c \in codes : ~Falsy(c.code_challenge) /\ c.code_challenge_method = "S256"

\* C7: a token request whose code_verifier does not hash to the
\* code_challenge stored with the code it presents is answered 400
\* invalid_grant and creates no Token row.
C7_WrongVerifierIsRejected ==
    \A r \in AllRequests :
        (/\ IsExchange(r) /\ r.auth_code # NoCode
         /\ ~Falsy(r.code_verifier)
         /\ S256(r.code_verifier) # r.auth_code.code_challenge)
        => InvalidGrant(r)

\* The requests that the step starts.
Started ==
    {req'[p] : p \in {q \in Procs : req[q].kind = "idle" /\ req'[q].kind # "idle"}}
        \cup (IF answered' # answered THEN {answered'} ELSE {})

\* C8: a token request with a code, a redirect_uri and the client's
\* credentials, but no code_verifier, is answered 400 invalid_request
\* "Code verifier required", whatever the code, and the step neither creates
\* a Token row nor removes an AuthorizationCode row.
C8_Step ==
    \A r \in Started :
        (/\ IsExchange(r) /\ Authenticated(r)
         /\ ~Falsy(r.code) /\ ~Falsy(r.redirect_uri)
         /\ Falsy(r.code_verifier))
        => /\ r.pc = "done"
           /\ r.status = HTTP_400_BAD_REQUEST
           /\ r.error = "invalid_request"
           /\ r.error_description = "Code verifier required"
           /\ r.access_token = None
           /\ tokens' = tokens
           /\ codes' = codes

C8_VerifierIsRequired == [][C8_Step]_vars

C8_Witness ==
    /\ IsExchange(answered) /\ Falsy(answered.code_verifier)
    /\ answered.error_description = "Code verifier required"
    /\ \E c \in codes : c.code = answered.code /\ ~Falsy(c.code_challenge)

\* C9: an /authorize request or a /consent submission of a signed-in user
\* whose redirect_uri is not one of the redirect_uris of the client it names
\* is answered 400, and not with a redirect.
C9_NoRedirectToUnregisteredUri ==
    LET client == validate_client(resp.client_id)
    IN  (/\ resp.op \in {"authorize", "consent"}
         /\ resp.status # HTTP_401_UNAUTHORIZED
         /\ client # NoClient
         /\ ~validate_redirect_uri(client, resp.redirect_uri))
        => (resp.status = HTTP_400_BAD_REQUEST /\ resp.location = None)

\* C10: a token request whose redirect_uri is not the one stored with the
\* code it presents is answered 400 invalid_grant and creates no Token row,
\* also when the redirect_uri is another one the client has registered.
C10_RedirectUriMustMatch ==
    \A r \in AllRequests :
        (/\ IsExchange(r) /\ r.auth_code # NoCode
         /\ r.redirect_uri # r.auth_code.redirect_uri)
        => InvalidGrant(r)

C10_Witness ==
    /\ IsExchange(answered) /\ answered.auth_code # NoCode
    /\ answered.redirect_uri = "u2"
    /\ validate_redirect_uri(ClientA, answered.redirect_uri)
    /\ InvalidGrant(answered)
    /\ answered.code_verifier = "v1" /\ answered.auth_code.code_challenge = "ch1"

\* The bearer string of the request passes validate_access_token now.
HasValidToken(r) ==
    r.presented # None /\ validate_access_token(r.presented) # NoToken

\* C11: a request for /api/memories/ with no "Authorization: Bearer" header,
\* or with a bearer string that matches no Token row or a row that is expired
\* or revoked, is answered 401 and is not forwarded to the handler.
C11_Step ==
    \A r \in Started :
        (IsBearer(r) /\ r.path = MemoriesPath /\ ~HasValidToken(r))
        => (r.status = HTTP_401_UNAUTHORIZED /\ ~r.forwarded)

C11_InvalidTokenIsRejected == [][C11_Step]_vars

\* C12: a request for /api/memories/ whose bearer string is the access_token
\* of a Token row that is unexpired, not revoked and not blacklisted is
\* forwarded with the row's user_id and the row's scopes in the request state.
C12_Step ==
    \A r \in Started :
        (/\ IsBearer(r) /\ r.path = MemoriesPath /\ HasValidToken(r)
         /\ BlacklistEntry(r.presented) = NoEntry)
        => LET token_obj == validate_access_token(r.presented)
           IN  /\ r.forwarded
               /\ r.user_id = token_obj.user_id
               /\ r.scope = token_obj.scope

C12_ValidTokenIsForwarded == [][C12_Step]_vars

\* The paths the allow-list names: the root page, and the enumerated
\* endpoints with what lies under them.
Exempt(path) ==
    \/ path = Root
    \/ \E endpoint \in PUBLIC_ENDPOINTS \ {Root} : startswith(path, endpoint)

\* C13: a request that is forwarded to its handler either has a path of the
\* enumerated public endpoints or has passed validate_access_token.
C13_OnlyPublicPathsSkipValidation ==
    \A r \in AllRequests :
        (IsBearer(r) /\ r.forwarded)
        => (Exempt(r.path) \/ r.token_obj # NoToken)

\* The Token row a bearer string names.
TokenOf(token) == First({t \in tokens : t.access_token = token}, NoToken)

\* C14: where require_scopes(S) guards the handler of /api/memories/, a
\* request whose token lacks an element of S gets 403 insufficient_scope and
\* the handler body does not run, and a request whose token has every element
\* of S passes the guard.
C14_GuardFollowsTokenScopes ==
    \A r \in AllRequests :
        (/\ IsBearer(r) /\ r.pc \in {"handler", "denied"}
         /\ r.path = MemoriesPath /\ TokenOf(r.presented) # NoToken)
        => IF check_scopes(TokenOf(r.presented).scope, r.required)
           THEN r.pc = "handler"
           ELSE /\ r.pc = "denied"
                /\ r.status = HTTP_403_FORBIDDEN
                /\ r.error = "insufficient_scope"

\* The request is one of POST /token.
IsTokenRequest(r) ==
    r.kind \in {"authorization_code", "refresh_token", "other_grant"}

\* The client_id of the request names no client, or names a confidential
\* client whose secret the request does not carry.
LacksCredentials(r) ==
    \/ ~(\E c \in clients : c.client_id = r.client_id)
    \/ \E c \in clients : /\ c.client_id = r.client_id
                           /\ c.is_confidential
                           /\ (r.client_secret = None \/ r.client_secret # c.client_secret)

\* C15: a token request of any grant type whose client_id resolves to no
\* client, or whose confidential client's client_secret is missing or not the
\* stored one, is answered with error invalid_client at once, and the step
\* changes neither the codes, nor the tokens, nor the blacklist.
C15_Step ==
    \A r \in Started :
        (IsTokenRequest(r) /\ LacksCredentials(r))
        => /\ r.pc = "done"
           /\ r.status = HTTP_400_BAD_REQUEST
           /\ r.error = "invalid_client"
           /\ r.access_token = None
           /\ codes' = codes
           /\ tokens' = tokens
           /\ blacklist' = blacklist

C15_ClientMustAuthenticate == [][C15_Step]_vars

C15_Witness ==
    /\ IsRefresh(answered)
    /\ answered.client_id = "cA" /\ answered.client_secret = "sB"
    /\ answered.error = "invalid_client"
    /\ \E t \in tokens : t.refresh_token = answered.presented

\* C16: a token request of an authenticated client that presents a code
\* issued to another client is answered 400 invalid_grant, and the step
\* creates no Token row and leaves the code row in place.
C16_Step ==
    \A r \in Started :
        (/\ IsExchange(r) /\ Authenticated(r)
         /\ MissingParameter(r.code, r.redirect_uri, r.code_verifier) = "ok"
         /\ \E c \in codes : /\ c.code = r.code
                             /\ c.client_id # validate_client(r.client_id).id)
        => /\ InvalidGrant(r)
           /\ tokens' = tokens
           /\ codes' = codes

C16_CodeIsBoundToItsClient == [][C16_Step]_vars

C16_Witness ==
    /\ IsExchange(answered)
    /\ answered.client_id = "cB" /\ Authenticated(answered)
    /\ InvalidGrant(answered)
    /\ \E c \in codes : /\ c.code = answered.code /\ c.client_id = ClientA.id
                        /\ c.redirect_uri = answered.redirect_uri

\* The rows of the code that the request presents, for its client.
CodeRows(r) ==
    {c \in codes : c.code = r.code /\ c.client_id = validate_client(r.client_id).id}

\* C17: a token request, complete and authenticated, that presents a code
\* whose expires_at is in the past is answered 400 invalid_grant, and the
\* same step deletes the code row and creates no Token row; and a code that
\* consent creates has its expires_at 10 minutes after its creation.
C17_Step ==
    /\ \A r \in Started :
          (/\ IsExchange(r) /\ Authenticated(r)
           /\ MissingParameter(r.code, r.redirect_uri, r.code_verifier) = "ok"
           /\ \E c \in CodeRows(r) : c.expires_at < now)
          => /\ InvalidGrant(r)
             /\ codes' = codes \ CodeRows(r)
             /\ tokens' = tokens
    /\ \A c \in codes' \ codes : c.expires_at = now + 10

C17_ExpiredCodeIsDeleted == [][C17_Step]_vars

C17_Witness ==
    /\ IsExchange(answered) /\ InvalidGrant(answered)
    /\ answered.error_description = "Authorization code has expired"
    /\ answered.auth_code.expires_at = 10 /\ now = 11
    /\ ~(\E c \in codes : c.code = answered.code)
    /\ tokens = {}

\* The Token row carries the client, the user and the scope of the code.
FromCode(t, auth_code) ==
    /\ t.client_id = auth_code.client_id
    /\ t.user_id = auth_code.user_id
    /\ t.scope = auth_code.scope

\* C18: a successful authorization_code exchange inserts one Token row, with
\* the client, user_id and scope of the code it consumes, and answers with
\* token_type "bearer", the access_token and refresh_token of that row, the
\* scope of the code, and expires_in 3600.
C18_Step ==
    \A p \in Procs :
        LET r == req[p]
            s == req'[p]
        IN  /\ (IsExchange(r) /\ r.pc = "validated" /\ s.pc = "token_created")
               => /\ tokens \subseteq tokens'
                  /\ Cardinality(tokens' \ tokens) = 1
                  /\ \A t \in tokens' \ tokens :
                        /\ FromCode(t, r.auth_code)
                        /\ t.access_token = s.access_token
                        /\ t.refresh_token = s.refresh_token
            /\ (IsExchange(r) /\ r.pc = "token_created" /\ s.pc = "done")
               => /\ tokens' = tokens
                  /\ s.status = 200
                  /\ s.token_type = "bearer"
                  /\ s.expires_in = 3600
                  /\ s.scope = r.auth_code.scope
                  /\ \E t \in tokens : /\ FromCode(t, r.auth_code)
                                       /\ t.access_token = s.access_token
                                       /\ t.refresh_token = s.refresh_token

C18_ExchangeResult == [][C18_Step]_vars

C18_Witness ==
    \E p \in Procs :
        /\ IsExchange(req[p]) /\ req[p].pc = "done" /\ req[p].status = 200
        /\ req[p].scope = <<"read">> /\ req[p].expires_in = 3600
        /\ Cardinality(tokens) = 1

\* C19: when an authorization_code token request has ended with
\* server_error, no Token row that the request issued is in the store, and
\* the row of its code is still there.
C19_FailedExchangeLeavesNoToken ==
    \A r \in AllRequests :
        (IsExchange(r) /\ r.pc = "done" /\ r.error = "server_error")
        => /\ ~(\E t \in tokens : t.access_token = r.access_token)
           /\ r.auth_code \in codes

\* C20: a refresh_token grant of an authenticated client is answered 400
\* invalid_grant, and the step leaves the Token rows as they are, whenever no
\* Token row has the refresh token it presents, or the row's
\* refresh_token_expires_at is in the past, or the row has is_revoked set.
C20_Step ==
    \A r \in Started :
        (/\ IsRefresh(r) /\ Authenticated(r) /\ ~Falsy(r.presented)
         /\ LET token_obj == FindByRefresh(r.presented)
            IN  \/ token_obj = NoToken
                \/ token_obj.refresh_token_expires_at < now
                \/ token_obj.is_revoked)
        => (InvalidGrant(r) /\ tokens' = tokens)

IsRefreshGrant(r) == r.kind \in {"refresh_token", "provider_refresh"}

\* C21, the answer: a refresh grant is answered 200 only if the scope it asks
\* for, when it asks for one, is within the scope of the Token row it
\* presents, and the scope of the answer is within that scope too.
C21_Answer ==
    \A r \in AllRequests :
        (IsRefreshGrant(r) /\ r.pc = "done" /\ r.status = HTTP_200_OK)
        => /\ r.requested # None
                  => Elements(r.requested) \subseteq Elements(r.token_obj.scope)
           /\ Elements(r.scope) \subseteq Elements(r.token_obj.scope)

\* C21, the rows: no step adds a scope to a Token row.
C21_RowStep ==
    \A t \in tokens, u \in tokens' :
        t.id = u.id => Elements(u.scope) \subseteq Elements(t.scope)

\* C21: a refresh grant that asks for a scope outside the scope of the token
\* it presents fails (with invalid_scope) instead of being answered 200, and
\* the scope of a token never grows across refreshes.
C21_ScopeNeverGrows == []C21_Answer /\ [][C21_RowStep]_vars

\* The step ends slot p's refresh grant with 500 before its commit.
RotationFails(p) ==
    /\ IsRefresh(req[p]) /\ req[p].pc = "loaded"
    /\ req'[p].pc = "done" /\ req'[p].error = "server_error"
    /\ \E t \in tokens : t.id = req[p].token_obj.id

\* Some refresh grant that presented this refresh token ended in server_error.
RotationFailed(refresh_token) ==
    \E q \in Procs : /\ IsRefresh(req[q]) /\ req[q].presented = refresh_token
                     /\ req[q].pc = "done" /\ req[q].error = "server_error"

\* C22: a refresh grant whose rotation fails before its commit leaves the
\* Token rows as they were, with the access and refresh strings they held;
\* and a later refresh grant that presents the refresh token of the failed
\* one, while a row still holds it, is accepted, rotated and answered 200.
C22_Step ==
    /\ \A p \in Procs : RotationFails(p) => tokens' = tokens
    /\ \A r \in Started :
          (/\ IsRefresh(r) /\ RotationFailed(r.presented)
           /\ \E t \in tokens : t.refresh_token = r.presented)
          => (r.pc = "loaded" /\ r.token_obj.refresh_token = r.presented)
    /\ \A p \in Procs :
          (/\ IsRefresh(req[p]) /\ req[p].pc = "loaded" /\ req'[p].pc = "rotated"
           /\ RotationFailed(req[p].presented))
          => /\ ~(\E t \in tokens' : t.refresh_token = req[p].presented)
             /\ \E t \in tokens' : t.refresh_token = req'[p].refresh_token

C22_FailedRotationKeepsToken == [][C22_Step]_vars

C22_Witness ==
    /\ IsRefresh(req[1]) /\ req[1].pc = "done" /\ req[1].error = "server_error"
    /\ IsRefresh(req[2]) /\ req[2].pc = "done" /\ req[2].status = HTTP_200_OK
    /\ req[2].presented = req[1].presented
    /\ ~req[2].late
    /\ tokens = {[IssuedToken EXCEPT !.access_token = req[2].access_token,
                                     !.refresh_token = req[2].refresh_token]}

\* The first guard of /authorize that the request fails, in the documented
\* order, or "none".
EarliestFailure(response) ==
    LET q == response.request
        client == validate_client(response.client_id)
    IN  IF q.response_type # "code" THEN "response_type"
        ELSE IF client = NoClient THEN "client_id"
        ELSE IF response.redirect_uri \notin client.redirect_uris THEN "redirect_uri"
        ELSE IF ~(Elements(q.scope) \subseteq client.scopes) THEN "scopes"
        ELSE IF \/ Falsy(q.code_challenge)
                \/ ~(Falsy(q.code_challenge_method) \/ q.code_challenge_method = "S256")
        THEN "pkce"
        ELSE IF q.current_user = None THEN "user"
        ELSE "none"

\* The error documented for a failing guard; the redirect_uri guard is
\* documented with a direct 400, every other with a redirect.
Documented(guard) ==
    CASE guard = "response_type" -> "unsupported_response_type"
      [] guard = "client_id" -> "invalid_client"
      [] guard = "redirect_uri" -> "invalid_request"
      [] guard = "scopes" -> "invalid_scope"
      [] guard = "pkce" -> "invalid_request"
      [] guard = "user" -> "login_required"
      [] OTHER -> None

\* The consent page.
RendersConsent(response) ==
    response.status = HTTP_200_OK /\ response.location = None

\* C23: the answer of /authorize is the one documented for the earliest
\* guard the request fails, in the order response_type, client_id,
\* redirect_uri, scopes, PKCE, user; the consent page is rendered exactly
\* when no guard fails.
C23_EarliestGuardDecides ==
    LET guard == EarliestFailure(resp)
    IN  resp.op = "authorize" =>
           /\ resp.error = Documented(guard)
           /\ RendersConsent(resp) <=> guard = "none"
           /\ guard = "redirect_uri"
                  => (resp.status = HTTP_400_BAD_REQUEST /\ resp.location = None)
           /\ guard \notin {"none", "redirect_uri"}
                  => (resp.status = HTTP_302_FOUND /\ resp.location = resp.redirect_uri)

\* C24: an /authorize request with the response_type "code", a registered
\* client and one of its redirect URIs, in which some requested scope is not
\* one of the client's scopes, is answered with the redirect error
\* invalid_scope; and no request with such a scope gets the consent page.
C24_UnregisteredScopeIsRejected ==
    LET client == validate_client(resp.client_id)
        q == resp.request
    IN  (/\ resp.op = "authorize"
         /\ \E scope \in Elements(q.scope) : scope \notin client.scopes)
        => /\ ~RendersConsent(resp)
           /\ (/\ q.response_type = "code" /\ client # NoClient
               /\ resp.redirect_uri \in client.redirect_uris)
              => /\ resp.status = HTTP_302_FOUND
                 /\ resp.location = resp.redirect_uri
                 /\ resp.error = "invalid_scope"

C24_Witness ==
    /\ resp.op = "authorize" /\ resp.client_id = "cA"
    /\ resp.request.scope = <<"read", "admin">>
    /\ resp.request.code_challenge = "ch1" /\ resp.request.current_user = "alice"
    /\ resp.error = "invalid_scope" /\ resp.status = HTTP_302_FOUND

\* The step is a /consent submission of a signed-in user that names a
\* registered client and one of its redirect URIs.
ConsentStep ==
    /\ resp'.op = "consent"
    /\ resp'.request.current_user # None
    /\ validate_client(resp'.client_id) # NoClient
    /\ resp'.redirect_uri \in validate_client(resp'.client_id).redirect_uris

\* The step answers with a redirect to the submitted redirect_uri that
\* carries the submitted state.
RedirectsWithState ==
    /\ resp'.status = HTTP_302_FOUND
    /\ resp'.location = resp'.redirect_uri
    /\ resp'.state = resp'.request.state

\* The step creates one AuthorizationCode, bound to what was submitted, and
\* answers with its code.
IssuesCode ==
    /\ codes \subseteq codes'
    /\ Cardinality(codes' \ codes) = 1
    /\ \A c \in codes' \ codes :
          /\ c.client_id = validate_client(resp'.client_id).id
          /\ c.user_id = resp'.request.current_user
          /\ c.redirect_uri = resp'.redirect_uri
          /\ c.scope = resp'.request.scope
          /\ c.code_challenge = resp'.request.code_challenge
          /\ resp'.code = c.code
    /\ RedirectsWithState
    /\ resp'.error = None

\* The step creates no AuthorizationCode and answers access_denied.
DeniesAccess ==
    /\ codes' = codes
    /\ RedirectsWithState
    /\ resp'.error = "access_denied"
    /\ resp'.code = None

\* C25: a /consent submission of a signed-in user with decision "approve"
\* creates exactly one AuthorizationCode, bound to the submitted client, the
\* user, the redirect_uri, the scope and the code_challenge, and redirects
\* 302 to redirect_uri with the code and the state; a submission with any
\* other decision redirects with access_denied and the state and creates no
\* AuthorizationCode.
C25_Step ==
    ConsentStep =>
        IF resp'.request.decision = "approve" THEN IssuesCode ELSE DeniesAccess

C25_ConsentDecides == [][C25_Step]_vars

\* The decision is "approve" in any letter case.
Approves(decision) == decision \in {"approve", "Approve", "APPROVE"}

\* C25, amended: a /consent submission of a signed-in user, for a registered
\* client and one of its redirect URIs, whose decision is "approve" in any
\* letter case creates exactly one AuthorizationCode, bound to the submitted
\* client, the user, the redirect_uri, the scope and the code_challenge, and
\* redirects 302 to redirect_uri with the code and the state; with any other
\* decision it redirects with access_denied and the state and creates no
\* AuthorizationCode.
C25_AmendedStep ==
    ConsentStep =>
        IF Approves(resp'.request.decision) THEN IssuesCode ELSE DeniesAccess

C25_ConsentDecidesIgnoringCase == [][C25_AmendedStep]_vars

C25_Witness ==
    /\ resp.op = "consent" /\ resp.request.decision = "APPROVE"
    /\ resp.request.current_user = "alice" /\ resp.request.state = "st2"
    /\ resp.status = HTTP_302_FOUND /\ resp.location = "u1" /\ resp.state = "st2"
    /\ \E c \in codes : /\ c.code = resp.code /\ c.code_challenge = "ch1"
                        /\ c.scope = <<"read", "admin">>

IsIntrospect(r) == r.kind = "introspect"

\* The token string has a blacklist row that is not expired.
Blacklisted(token) ==
    \E b \in blacklist : b.token_jti = token /\ ~(now > b.expires_at)

\* The introspection response says active=true with the fields of the row.
ActiveWith(r, token_obj) ==
    /\ r.active = TRUE
    /\ r.scope = token_obj.scope
    /\ r.user_id = token_obj.user_id
    /\ r.exp = token_obj.access_token_expires_at
    /\ \E c \in clients : c.id = token_obj.client_id /\ c.client_id = r.client_id

\* C26: introspection answers active=false when the token string matches no
\* Token row, or a row that is expired or revoked, or is blacklisted with an
\* unexpired entry; and it answers active=true, with the scope, client_id,
\* user_id and expiry of the row, when the token validates and is not
\* blacklisted, and only then.
C26_Step ==
    /\ \A r \in Started :
          (IsIntrospect(r) /\ validate_access_token(r.presented) = NoToken)
          => (r.pc = "done" /\ r.status = HTTP_200_OK /\ r.active = FALSE)
    /\ \A p \in Procs :
          (IsIntrospect(req[p]) /\ req[p].pc = "token_valid" /\ req'[p].pc = "done")
          => /\ req'[p].status = HTTP_200_OK
             /\ IF Blacklisted(req[p].presented)
                THEN req'[p].active = FALSE
                ELSE ActiveWith(req'[p], req[p].token_obj)

C26_IntrospectionTellsValidity == [][C26_Step]_vars

IsRevoke(r) == r.kind = "revoke"

\* The step is the commit of slot p's revoke_token call.
RevokeCommits(p) ==
    IsRevoke(req[p]) /\ req[p].pc = "revoking" /\ req'[p].pc = "done"

\* C27: revoke_token(T) inserts a blacklist row for T only when T validates
\* as an access token, and that row's expires_at is the
\* access_token_expires_at of the Token row of T; when T does not validate,
\* the call returns False and the blacklist is unchanged.
C27_Step ==
    /\ \A r \in Started :
          IsRevoke(r) =>
             /\ blacklist' = blacklist
             /\ IF validate_access_token(r.presented) = NoToken
                THEN r.pc = "done" /\ r.status # HTTP_200_OK
                ELSE r.pc = "revoking"
    /\ \A p \in Procs :
          RevokeCommits(p) =>
             /\ blacklist \subseteq blacklist'
             /\ Cardinality(blacklist' \ blacklist) = 1
             /\ \A b \in blacklist' \ blacklist :
                   /\ b.token_jti = req[p].presented
                   /\ b.expires_at = TokenOf(req[p].presented).access_token_expires_at
    /\ (blacklist' \ blacklist # {}) => \E p \in Procs : RevokeCommits(p)

C27_RevokeBlacklistsValidTokens == [][C27_Step]_vars

C27_Witness ==
    /\ IsRevoke(answered) /\ answered.pc = "done" /\ answered.presented = "bogus"
    /\ answered.status # HTTP_200_OK
    /\ \E p \in Procs : /\ IsRevoke(req[p]) /\ req[p].status = HTTP_200_OK
                        /\ req[p].presented = IssuedToken.access_token
    /\ now = 0
    /\ \E b \in blacklist :
          /\ b.token_jti = IssuedToken.access_token
          /\ b.expires_at = ACCESS_TOKEN_EXPIRE_MINUTES
    /\ Cardinality(blacklist) = 1

\* The token strings that the blacklist names.
BlacklistedTokens(rows) == {b.token_jti : b \in rows}

\* C28: every revoke request that names a token is answered 200, also when
\* the token has been revoked before, and the revocation of a token that is
\* revoked already leaves the set of blacklisted tokens as it is.
C28_Step ==
    /\ \A r \in Started :
          (IsRevoke(r) /\ r.presented # None /\ r.pc = "done")
          => r.status = HTTP_200_OK
    /\ \A p \in Procs :
          RevokeCommits(p) =>
             /\ req'[p].status = HTTP_200_OK
             /\ req[p].presented \in BlacklistedTokens(blacklist)
                   => BlacklistedTokens(blacklist') = BlacklistedTokens(blacklist)

C28_RevocationIsIdempotent == [][C28_Step]_vars

AdminOps == {"register", "list", "get", "update", "delete"}

\* The password each user has chosen.
PasswordOf(username) ==
    CASE username = "admin" -> "adminpassword"
      [] username = "regular" -> "userpassword"
      [] username = "member" -> "memberpassword"
      [] OTHER -> None

\* The credentials name a user and carry that user's password.
ValidCredentials(credentials) ==
    /\ credentials # NoCredentials
    /\ \E u \in users : u.username = credentials.username
    /\ credentials.password = PasswordOf(credentials.username)

IsSuperuser(credentials) ==
    \E u \in users : u.username = credentials.username /\ u.is_superuser

\* C29: an administrator endpoint answers 401 when the Basic credentials
\* are missing, name no user or carry a wrong password, and 403 when they
\* are the valid credentials of a user that is not a superuser, and in both
\* cases leaves the client table as it is; the handler is reached only with
\* the valid credentials of a superuser.
C29_Step ==
    LET credentials == resp'.request.credentials
    IN  resp'.op \in AdminOps =>
           IF ~ValidCredentials(credentials)
           THEN resp'.status = HTTP_401_UNAUTHORIZED /\ clients' = clients
           ELSE IF ~IsSuperuser(credentials)
           THEN resp'.status = HTTP_403_FORBIDDEN /\ clients' = clients
           ELSE resp'.status \notin {HTTP_401_UNAUTHORIZED, HTTP_403_FORBIDDEN}

C30_ClientsHaveUrisAndScopes ==
    \A c \in clients : c.redirect_uris # {} /\ c.scopes # {}

\* C31: every Token row has refresh_token_expires_at >= access_token_expires_at,
\* after the exchange of a code and after every rotation.
C31_RefreshOutlivesAccess ==
    \A t \in tokens : t.refresh_token_expires_at >= t.access_token_expires_at

\* A row that a code exchange created has been rotated at a later time.
C31_Witness ==
    \E t \in tokens, p \in Procs :
        /\ req[p].kind = "refresh_token"
        /\ req[p].pc = "done"
        /\ req[p].status = HTTP_200_OK
        /\ t.refresh_token = req[p].refresh_token
        /\ t.access_token_expires_at > ACCESS_TOKEN_EXPIRE_MINUTES

IsActive(user_id) == \E u \in users : u.id = user_id /\ u.is_active

\* C32: get_current_user returns no user whose is_active is false, and no
\* AuthorizationCode is created with the user_id of an inactive user.
C32_Step ==
    /\ resp'.op = "consent" /\ resp'.request.current_user # None
          => IsActive(resp'.request.current_user)
    /\ \A c \in codes' \ codes : IsActive(c.user_id)

C32_OnlyActiveUsersConsent == [][C32_Step]_vars

\* The inactive user has submitted an approval with a valid access token of
\* theirs and was answered 401.
C32_Witness ==
    /\ resp.op = "consent"
    /\ resp.request.decision = "approve"
    /\ resp.request.presented.token = InactiveUserToken.access_token
    /\ validate_access_token(InactiveUserToken.access_token) # NoToken
    /\ resp.request.presented.session_token = None
    /\ resp.request.presented.user_id = None
    /\ resp.status = HTTP_401_UNAUTHORIZED

\* The blacklist entries of a token string.
EntriesOf(token_jti) == {b \in blacklist : b.token_jti = token_jti}

\* C33: is_blacklisted(t) returns True and leaves the table unchanged when
\* an unexpired entry for t exists; when the entry it finds is past its
\* expires_at it deletes that entry and returns False; when there is no
\* entry it returns False and changes nothing.
C33_Step ==
    \A t \in KnownAccessTokens :
        (/\ answered'.kind = "is_blacklisted"
         /\ answered'.presented = t
         /\ req' = req /\ now' = now
         /\ answered' # answered \/ blacklist' # blacklist)
        => LET entries == EntriesOf(t)
               returned == answered'.active
           IN  IF entries = {}
               THEN returned = FALSE /\ blacklist' = blacklist
               ELSE IF \A b \in entries : ~(now > b.expires_at)
               THEN returned = TRUE /\ blacklist' = blacklist
               ELSE /\ returned = FALSE
                    /\ \E b \in entries : /\ now > b.expires_at
                                           /\ blacklist' = blacklist \ {b}

C33_LazySweep == [][C33_Step]_vars

\* A call has found the entry of a revoked token past its expires_at, and
\* the entry is gone.
C33_Witness ==
    /\ answered.kind = "is_blacklisted"
    /\ answered.active = FALSE
    /\ TokenRevoked(answered.presented)
    /\ EntriesOf(answered.presented) = {}

\* The Token rows of which an access token has been revoked.
RevokedRows ==
    {req[q].token_obj.id :
        q \in {p \in Procs : /\ req[p].kind = "revoke" /\ req[p].pc = "done"
                              /\ req[p].status = HTTP_200_OK}}

\* C34: once an access token has been revoked, a refresh_token grant that
\* presents the refresh token of the same Token row is refused, so that the
\* row never gets a new access token that is valid and not blacklisted.
C34_Step ==
    \A r \in Started :
        (/\ IsRefresh(r) /\ Authenticated(r)
         /\ FindByRefresh(r.presented).id \in RevokedRows)
        => (r.pc = "done" /\ r.status # HTTP_200_OK)

C34_RevokedGrantIsNotRefreshed == [][C34_Step]_vars

\* C35: a refresh_token grant of an authenticated client that presents the
\* refresh token of a Token row issued to another client is answered 400
\* invalid_grant, and the step leaves the Token rows as they are.
C35_Step ==
    \A r \in Started :
        LET token_obj == FindByRefresh(r.presented)
        IN  (/\ IsRefresh(r) /\ Authenticated(r)
             /\ token_obj # NoToken
             /\ token_obj.client_id # validate_client(r.client_id).id)
            => (InvalidGrant(r) /\ tokens' = tokens)

C35_RefreshTokenIsBoundToItsClient == [][C35_Step]_vars

\* C36: a request that presents a blacklisted access token, as bearer token
\* or as session_token cookie, is answered 401 at /consent and at
\* /tokens/revoke, and creates no authorization code and no blacklist row.
C36_Step ==
    /\ \A r \in Started :
          (IsRevoke(r) /\ Blacklisted(r.presented))
          => (r.pc = "done" /\ r.status = HTTP_401_UNAUTHORIZED)
    /\ (/\ resp'.op = "consent"
        /\ resp' # resp \/ codes' # codes
        /\ \/ Blacklisted(resp'.request.presented.token)
           \/ Blacklisted(resp'.request.presented.session_token))
       => (resp'.status = HTTP_401_UNAUTHORIZED /\ codes' = codes)

C36_BlacklistedTokenDoesNotSignIn == [][C36_Step]_vars

\* The scopes registered for the client with this primary key.
RegisteredScopes(client_pk) ==
    First({c \in clients : c.id = client_pk}, NoClient).scopes

\* C37: the scope of every AuthorizationCode row and of every Token row is
\* within the scopes registered for its client.
C37_ScopesAreRegistered ==
    /\ \A c \in codes : Elements(c.scope) \subseteq RegisteredScopes(c.client_id)
    /\ \A t \in tokens : Elements(t.scope) \subseteq RegisteredScopes(t.client_id)

\* The requests that the step answers.
Finished ==
    {r \in Started : r.pc = "done"}
        \cup {req'[p] : p \in {q \in Procs : /\ req[q].kind # "idle"
                                             /\ req[q].pc # "done"
                                             /\ req'[q].pc = "done"}}

\* C38: a request that verify_token_middleware forwards on a path that is
\* not exempt presents a bearer string that is, at that time, the access
\* token of an unexpired, unrevoked and not blacklisted Token row, and is
\* forwarded with the user_id and the scopes of that row, whatever other
\* headers it carries.
C38_Step ==
    \A r \in Finished :
        (IsBearer(r) /\ r.forwarded /\ ~Exempt(r.path))
        => /\ HasValidToken(r)
           /\ ~Blacklisted(r.presented)
           /\ r.user_id = TokenOf(r.presented).user_id
           /\ r.scope = TokenOf(r.presented).scope

C38_ForwardedRequestsAreValidated == [][C38_Step]_vars

\* No Client row has this primary key.
Deleted(client_pk) == \A c \in clients : c.id # client_pk

\* Every access token that was ever handed out or presented.
IssuedAccessTokens ==
    KnownAccessTokens \cup {IssuedToken.access_token}
        \cup ({req[q].access_token : q \in Procs} \ {None})

\* C39, the tables: no AuthorizationCode row and no Token row belongs to a
\* client that has been deleted, and validate_access_token accepts no access
\* token once the client that all of them were issued to is deleted.
C39_Rows ==
    /\ \A c \in codes : ~Deleted(c.client_id)
    /\ \A t \in tokens : ~Deleted(t.client_id)
    /\ Deleted(ClientA.id)
          => \A token \in IssuedAccessTokens : validate_access_token(token) = NoToken

\* C39, the token endpoint: once the client is deleted, a token request that
\* comes with its credentials, one of its codes or one of its refresh tokens
\* is refused.
C39_Step ==
    \A r \in Started :
        (Deleted(ClientA.id) /\ (IsExchange(r) \/ IsRefresh(r)))
        => (r.pc = "done" /\ r.status = HTTP_400_BAD_REQUEST)

C39_DeletedClientLeavesNothing == []C39_Rows /\ [][C39_Step]_vars

\* The client was deleted while it had a Token row, and its refresh token was
\* presented afterwards by the other client and refused.
C39_Witness ==
    /\ Deleted(ClientA.id)
    /\ resp.op = "delete" /\ resp.status = HTTP_204_NO_CONTENT
    /\ answered.kind = "refresh_token"
    /\ answered.client_id = ClientB.client_id
    /\ answered.presented = IssuedToken.refresh_token
    /\ answered.error = "invalid_grant"

====
